---------------------------- MODULE Spec2Model ----------------------------
(***************************************************************************)
(* A model of the stock-trading-bot simulation core: the Position and      *)
(* Portfolio classes of portfolio.py, the SMA crossover signal of          *)
(* strategies.py and the day-by-day loop Backtest.run of backtest.py.      *)
(*                                                                         *)
(* Python floats are modelled as exact rationals <<n, d>> (d > 0, lowest   *)
(* terms); prices and share quantities are integers.  A Python attribute   *)
(* that was never assigned is the value NoneR.                             *)
(***************************************************************************)
EXTENDS Integers, Sequences, FiniteSets, TLC

(***************************************************************************)
(* Bounds of the model.                                                    *)
(***************************************************************************)
MaxOps == 3        \* calls a client makes on a Portfolio
MaxQty == 2        \* largest share quantity a client passes
FreeDays == 3      \* bars after the fixed warm-up whose close is free

(***************************************************************************)
(* Program constants.                                                      *)
(***************************************************************************)
INITIAL_CASH == 10000
MAX_POSITION_SIZE == 10
MIN_BARS == 20
ATR_PERIOD == 14
SMA_SHORT == 5
SMA_LONG == 20
RSI_PERIOD == 14

(***************************************************************************)
(* Exact rational arithmetic.                                              *)
(***************************************************************************)
Abs(x) == IF x < 0 THEN -x ELSE x

RECURSIVE GCD(_, _)
GCD(a, b) == IF b = 0 THEN a ELSE GCD(b, a % b)

Rat(n, d) ==
    LET g == GCD(Abs(n), Abs(d))
        s == IF d < 0 THEN -1 ELSE 1
    IN  <<(s * n) \div g, (s * d) \div g>>

R(i) == <<i, 1>>
NoneR == <<0, 0>>
IsNone(a) == a[2] = 0
RAdd(a, b) == Rat(a[1] * b[2] + b[1] * a[2], a[2] * b[2])
RSub(a, b) == Rat(a[1] * b[2] - b[1] * a[2], a[2] * b[2])
RMul(a, b) == Rat(a[1] * b[1], a[2] * b[2])
RDiv(a, b) == Rat(a[1] * b[2], a[2] * b[1])
RLt(a, b) == a[1] * b[2] < b[1] * a[2]
RLe(a, b) == a[1] * b[2] <= b[1] * a[2]
RAbs(a) == <<Abs(a[1]), a[2]>>
\* Python int(): truncation toward zero
Trunc(a) == IF a[1] >= 0 THEN a[1] \div a[2] ELSE -((-a[1]) \div a[2])
Min2(a, b) == IF a <= b THEN a ELSE b
Max2(a, b) == IF a >= b THEN a ELSE b

ATR_MULTIPLIER == Rat(5, 2)
DEFAULT_ATR_FRACTION == Rat(2, 100)

(***************************************************************************)
(* Inputs.                                                                 *)
(***************************************************************************)
Symbols == <<"A", "B">>
SymbolSet == {Symbols[i] : i \in 1..Len(Symbols)}
PriceSet == {8, 12}
AtrSet == {NoneR, R(4)}
InitialCashSet == {10, 50, INITIAL_CASH}

Quantities == (-MaxQty..MaxQty) \ {0}
ClientSymbols == {"A"}
ClientPriceDicts == [ClientSymbols -> PriceSet]

VARIABLES
    portfolio,   \* the Portfolio object: initial_cash, cash, positions, trade_history
    raised,      \* TRUE when the last operation raised an exception
    last,        \* the last call a client made on the Portfolio, with what it returned
    nops,        \* number of client calls so far
    hist,        \* what fetch_historical_data returns: symbol -> bars in date order
    range,       \* Backtest.start_date and end_date
    historical_data, \* the fetched bars, filtered to the date range
    all_dates,   \* the sorted dates the loop of Backtest.run visits
    pc,          \* position of Backtest.run
    dateIdx,     \* index of the date loop into all_dates
    prices,      \* the prices dict of the current date
    alerts,      \* the risk alerts of the current date still to be handled
    symIdx,      \* index of the signal loop into self.symbols
    trades,      \* Backtest.trades
    results,     \* Backtest.results: the daily snapshots
    summary,     \* the dict Backtest.run returns
    hist2,       \* the bars a second, independent Backtest is given
    run2,        \* the portfolio, trades and results of that second Backtest
    cfg,         \* the module globals of config.py that strategies and runs read
    tc,          \* the StrategyOptimizer.test_configuration calls in progress
    sig,         \* the last generate_signal call: its arguments and what it returned
    fault,       \* the (date, symbol) step of a run at which signal generation raises
    metrics      \* what a direct call of evaluate_performance returned

pvars == <<portfolio, raised, last, nops>>
bvars == <<hist, range, historical_data, all_dates, pc, dateIdx, prices, alerts, symIdx,
           trades, results, summary, hist2, run2>>
ovars == <<cfg, tc, sig, fault, metrics>>
vars == <<portfolio, raised, last, nops, hist, range, historical_data, all_dates, pc,
          dateIdx, prices, alerts, symIdx, trades, results, summary, hist2, run2,
          cfg, tc, sig, fault, metrics>>

\* config.py as it is imported: STRATEGY_CONFIG, MAX_POSITION_SIZE and
\* USE_SENTIMENT_ANALYSIS
DefaultConfig ==
    [ STRATEGY_CONFIG |->
        [ type |-> "SMA_CROSSOVER", sma_short |-> SMA_SHORT, sma_long |-> SMA_LONG,
          ema_short |-> 12, ema_long |-> 26, rsi_period |-> RSI_PERIOD,
          rsi_oversold |-> 30, rsi_overbought |-> 70,
          bollinger_period |-> 20, bollinger_std |-> 2,
          trend_following |-> FALSE, crossover_only |-> TRUE ],
      MAX_POSITION_SIZE |-> MAX_POSITION_SIZE,
      STOP_LOSS_PERCENT |-> Rat(2, 100),
      TAKE_PROFIT_PERCENT |-> Rat(5, 100),
      USE_SENTIMENT_ANALYSIS |-> FALSE ]
NoSignalCall == [called |-> FALSE]
\* evaluate_performance has not been called directly
NoMetrics == [returned |-> FALSE]
\* no step of the run raises
NoFault == [date |-> 0, symbol |-> ""]
\* no optimizer is at work and no signal has been asked for
IdleOptimizer ==
    /\ cfg = DefaultConfig
    /\ tc = <<>>
    /\ sig = NoSignalCall

(***************************************************************************)
(* Position                                                                *)
(***************************************************************************)
\* Position.__init__; atr is NoneR when the caller passes none
Position(symbol, quantity, entry_price, atr) ==
    LET a == IF IsNone(atr) \/ atr[1] = 0
             THEN RMul(entry_price, DEFAULT_ATR_FRACTION) ELSE atr
        long == quantity > 0
    IN  [ symbol |-> symbol,
          quantity |-> quantity,
          entry_price |-> entry_price,
          current_price |-> entry_price,
          atr |-> a,
          stop_loss_price |-> IF long THEN RSub(entry_price, RMul(a, ATR_MULTIPLIER))
                                      ELSE RAdd(entry_price, RMul(a, ATR_MULTIPLIER)),
          highest_price |-> IF long THEN entry_price ELSE NoneR,
          lowest_price |-> IF long THEN NoneR ELSE entry_price ]

\* Position.update_price raises AttributeError when the branch it takes reads
\* an extreme price that __init__ never assigned
UpdateRaises(pos) ==
    IF pos.quantity > 0 THEN IsNone(pos.highest_price) ELSE IsNone(pos.lowest_price)

\* A faulty variant of the ratchet: the new stop is adopted unconditionally
update_price_noratchet(pos, price) ==
    LET p == [pos EXCEPT !.current_price = R(price)]
    IN  IF UpdateRaises(pos) THEN p
        ELSE IF pos.quantity > 0
        THEN IF RLt(p.highest_price, R(price))
             THEN [p EXCEPT !.highest_price = R(price),
                            !.stop_loss_price = RSub(R(price), RMul(p.atr, ATR_MULTIPLIER))]
             ELSE p
        ELSE IF RLt(R(price), p.lowest_price)
             THEN [p EXCEPT !.lowest_price = R(price),
                            !.stop_loss_price = RAdd(R(price), RMul(p.atr, ATR_MULTIPLIER))]
             ELSE p

\* Position.update_price; when it raises, current_price is already assigned
update_price(pos, price) ==
    LET p == [pos EXCEPT !.current_price = R(price)]
    IN  IF UpdateRaises(pos) THEN p
        ELSE IF pos.quantity > 0
        THEN IF RLt(p.highest_price, R(price))
             THEN LET new_stop == RSub(R(price), RMul(p.atr, ATR_MULTIPLIER))
                  IN  [p EXCEPT !.highest_price = R(price),
                                !.stop_loss_price =
                                    IF RLt(p.stop_loss_price, new_stop)
                                    THEN new_stop ELSE p.stop_loss_price]
             ELSE p
        ELSE IF RLt(R(price), p.lowest_price)
             THEN LET new_stop == RAdd(R(price), RMul(p.atr, ATR_MULTIPLIER))
                  IN  [p EXCEPT !.lowest_price = R(price),
                                !.stop_loss_price =
                                    IF RLt(new_stop, p.stop_loss_price)
                                    THEN new_stop ELSE p.stop_loss_price]
             ELSE p

\* Position.check_stop_loss
\* A faulty variant: a long position is stopped STOP_LOSS_PERCENT below its
\* entry price.
check_stop_loss_Percent(pos) ==
    IF pos.quantity > 0
    THEN RLe(pos.current_price,
             RMul(pos.entry_price, RSub(R(1), cfg.STOP_LOSS_PERCENT)))
    ELSE IF pos.quantity < 0 THEN RLe(pos.stop_loss_price, pos.current_price)
    ELSE FALSE

check_stop_loss(pos) ==
    IF pos.quantity > 0 THEN RLe(pos.current_price, pos.stop_loss_price)
    ELSE IF pos.quantity < 0 THEN RLe(pos.stop_loss_price, pos.current_price)
    ELSE FALSE

\* Position.get_pnl (utils.calculate_pnl)
get_pnl(pos) == RMul(RSub(pos.current_price, pos.entry_price), R(pos.quantity))

(***************************************************************************)
(* Portfolio.  positions is the dict in insertion order: a sequence of     *)
(* Position records with distinct symbols.                                 *)
(***************************************************************************)
\* Portfolio.__init__
NewPortfolio(initial_cash) ==
    [ initial_cash |-> IF initial_cash = 0 THEN INITIAL_CASH ELSE initial_cash,
      cash |-> IF initial_cash = 0 THEN INITIAL_CASH ELSE initial_cash,
      positions |-> <<>>,
      trade_history |-> <<>> ]

Held(pf) == {pf.positions[i].symbol : i \in 1..Len(pf.positions)}
IndexOf(pf, symbol) == CHOOSE i \in 1..Len(pf.positions) : pf.positions[i].symbol = symbol
\* Portfolio.get_position (for a held symbol)
get_position(pf, symbol) == pf.positions[IndexOf(pf, symbol)]
\* Portfolio.get_position_quantity
get_position_quantity(pf, symbol) ==
    IF symbol \in Held(pf) THEN get_position(pf, symbol).quantity ELSE 0

DeleteAt(seq, i) == SubSeq(seq, 1, i - 1) \o SubSeq(seq, i + 1, Len(seq))

TradeEntry(symbol, action, quantity, price) ==
    [symbol |-> symbol, action |-> action, quantity |-> quantity, price |-> price]

\* A faulty variant: adding to a held symbol opens the position anew at the
\* price of the fill, with a new stop and a new high-water mark.
add_position_Reopened(pf, symbol, quantity, price, atr) ==
    [pf EXCEPT
       !.positions =
           IF symbol \in Held(pf)
           THEN [pf.positions EXCEPT ![IndexOf(pf, symbol)] =
                    Position(symbol, pf.positions[IndexOf(pf, symbol)].quantity + quantity,
                             R(price), atr)]
           ELSE Append(pf.positions, Position(symbol, quantity, R(price), atr)),
       !.cash = IF quantity > 0 THEN pf.cash - quantity * price
                ELSE pf.cash + Abs(quantity * price),
       !.trade_history = Append(pf.trade_history,
            TradeEntry(symbol, IF quantity > 0 THEN "BUY" ELSE "SELL",
                       Abs(quantity), price))]

\* Portfolio.add_position
add_position(pf, symbol, quantity, price, atr) ==
    LET positions ==
            IF symbol \in Held(pf)
            THEN LET i == IndexOf(pf, symbol)
                     pos == pf.positions[i]
                     total_cost == RAdd(RMul(pos.entry_price, R(pos.quantity)),
                                        R(price * quantity))
                     total_quantity == pos.quantity + quantity
                 IN  [pf.positions EXCEPT ![i] =
                        [pos EXCEPT !.entry_price =
                                        IF total_quantity # 0
                                        THEN RDiv(total_cost, R(total_quantity))
                                        ELSE pos.entry_price,
                                    !.quantity = total_quantity,
                                    !.atr = IF IsNone(atr) THEN pos.atr
                                            ELSE RDiv(RAdd(pos.atr, atr), R(2))]]
            ELSE Append(pf.positions, Position(symbol, quantity, R(price), atr))
        cost == quantity * price
    IN  [pf EXCEPT !.positions = positions,
                   !.cash = IF quantity > 0 THEN pf.cash - cost ELSE pf.cash + Abs(cost),
                   !.trade_history = Append(pf.trade_history,
                        TradeEntry(symbol, IF quantity > 0 THEN "BUY" ELSE "SELL",
                                   Abs(quantity), price))]

\* A faulty variant: a symbol that is not held is sold all the same, cash and
\* trade history record the sale.
remove_position_Unchecked(pf, symbol, quantity, price) ==
    [pf EXCEPT !.cash = pf.cash + Abs(quantity) * price,
               !.trade_history = Append(pf.trade_history,
                    TradeEntry(symbol, "SELL", Abs(quantity), price))]

\* Portfolio.remove_position
remove_position(pf, symbol, quantity, price) ==
    IF symbol \notin Held(pf) THEN pf
    ELSE LET i == IndexOf(pf, symbol)
             pos == pf.positions[i]
             qty == IF Abs(quantity) > Abs(pos.quantity) THEN pos.quantity ELSE quantity
             proceeds == Abs(qty) * price
             left == pos.quantity - qty
         IN  [pf EXCEPT !.cash = IF qty < 0 THEN pf.cash + proceeds ELSE pf.cash - proceeds,
                        !.positions = IF left = 0 THEN DeleteAt(pf.positions, i)
                                      ELSE [pf.positions EXCEPT ![i].quantity = left],
                        !.trade_history = Append(pf.trade_history,
                             TradeEntry(symbol, IF qty < 0 THEN "SELL" ELSE "BUY",
                                        Abs(qty), price))]

(***************************************************************************)
(* A prices dict is a function from a set of symbols to prices; its     *)
(* items are visited in the order of Symbols.  A loop over it stops at the *)
(* first position whose update raises, leaving the earlier updates in      *)
(* place.                                                                  *)
(***************************************************************************)

RECURSIVE UpdateFrom(_, _, _)
UpdateFrom(pf, px, k) ==
    IF k > Len(Symbols) THEN [pf |-> pf, raised |-> FALSE]
    ELSE LET s == Symbols[k]
         IN  IF s \in DOMAIN px /\ s \in Held(pf)
             THEN LET i == IndexOf(pf, s)
                      pf2 == [pf EXCEPT !.positions[i] = update_price(@, px[s])]
                  IN  IF UpdateRaises(pf.positions[i])
                      THEN [pf |-> pf2, raised |-> TRUE]
                      ELSE UpdateFrom(pf2, px, k + 1)
             ELSE UpdateFrom(pf, px, k + 1)

\* Portfolio.update_prices
update_prices(pf, px) == UpdateFrom(pf, px, 1)

\* A faulty variant of get_total_value: positions are valued at their entry price
RECURSIVE TotalFromEntry(_, _, _, _)
TotalFromEntry(pf, px, i, total) ==
    IF i > Len(pf.positions) THEN [pf |-> pf, raised |-> FALSE, value |-> total]
    ELSE LET pos == pf.positions[i]
         IN  IF pos.symbol \in DOMAIN px
             THEN LET pf2 == [pf EXCEPT !.positions[i] = update_price(@, px[pos.symbol])]
                  IN  IF UpdateRaises(pos)
                      THEN [pf |-> pf2, raised |-> TRUE, value |-> total]
                      ELSE TotalFromEntry(pf2, px, i + 1,
                               RAdd(total, RMul(pos.entry_price, R(pos.quantity))))
             ELSE TotalFromEntry(pf, px, i + 1,
                      RAdd(total, RMul(pos.entry_price, R(pos.quantity))))

RECURSIVE TotalFrom(_, _, _, _)
TotalFrom(pf, px, i, total) ==
    IF i > Len(pf.positions) THEN [pf |-> pf, raised |-> FALSE, value |-> total]
    ELSE LET pos == pf.positions[i]
         IN  IF pos.symbol \in DOMAIN px
             THEN LET pf2 == [pf EXCEPT !.positions[i] = update_price(@, px[pos.symbol])]
                      upd == pf2.positions[i]
                  IN  IF UpdateRaises(pos)
                      THEN [pf |-> pf2, raised |-> TRUE, value |-> total]
                      ELSE TotalFrom(pf2, px, i + 1,
                               RAdd(total, RMul(upd.current_price, R(upd.quantity))))
             ELSE TotalFrom(pf, px, i + 1,
                      RAdd(total, RMul(pos.current_price, R(pos.quantity))))

\* Portfolio.get_total_value: the value is meaningful when raised is FALSE
get_total_value(pf, px) == TotalFrom(pf, px, 1, R(pf.cash))

\* Portfolio.check_risk_limits: the symbols whose stop is triggered, in dict order
RECURSIVE AlertsFrom(_, _)
AlertsFrom(pf, i) ==
    IF i > Len(pf.positions) THEN <<>>
    ELSE (IF check_stop_loss(pf.positions[i]) THEN <<pf.positions[i].symbol>> ELSE <<>>)
         \o AlertsFrom(pf, i + 1)

check_risk_limits(pf, px) ==
    LET u == update_prices(pf, px)
    IN  [pf |-> u.pf, raised |-> u.raised,
         alerts |-> IF u.raised THEN <<>> ELSE AlertsFrom(u.pf, 1)]

(***************************************************************************)
(* Bars and indicators (strategies.py).  A rolling mean that has too few   *)
(* bars, and an RSI whose gains and losses are both zero, is NaN: NoneR.   *)
(* Every comparison with NaN is false.                                     *)
(***************************************************************************)
Bar(date, close) == [date |-> date, close |-> close, high |-> close, low |-> close]

RECURSIVE SumFrom(_, _, _)
SumFrom(f, lo, hi) == IF lo > hi THEN 0 ELSE f[lo] + SumFrom(f, lo + 1, hi)

Closes(data) == [i \in 1..Len(data) |-> data[i].close]

\* rolling(window).mean() of a column, read at index k (1-based)
RollingMeanAt(col, window, k) ==
    IF k < window \/ k > Len(col) THEN NoneR
    ELSE Rat(SumFrom(col, k - window + 1, k), window)

\* calculate_sma, read at index k
calculate_sma(data, period, k) == RollingMeanAt(Closes(data), period, k)

\* the true range column of calculate_atr
TrueRange(data) ==
    [i \in 1..Len(data) |->
        LET hl == data[i].high - data[i].low
        IN  IF i = 1 THEN hl
            ELSE Max2(hl, Max2(Abs(data[i].high - data[i - 1].close),
                               Abs(data[i].low - data[i - 1].close)))]

\* calculate_atr(data, period).iloc[-1]
calculate_atr(data, period) == RollingMeanAt(TrueRange(data), period, Len(data))

Gains(data) ==
    [i \in 1..Len(data) |->
        IF i > 1 /\ data[i].close > data[i - 1].close
        THEN data[i].close - data[i - 1].close ELSE 0]
Losses(data) ==
    [i \in 1..Len(data) |->
        IF i > 1 /\ data[i].close < data[i - 1].close
        THEN data[i - 1].close - data[i].close ELSE 0]

\* calculate_rsi(data, period).iloc[-1]
calculate_rsi(data, period) ==
    LET gain == RollingMeanAt(Gains(data), period, Len(data))
        loss == RollingMeanAt(Losses(data), period, Len(data))
    IN  IF IsNone(gain) \/ IsNone(loss) THEN NoneR
        ELSE IF loss[1] = 0
             THEN (IF gain[1] = 0 THEN NoneR ELSE R(100))
             ELSE RSub(R(100), RDiv(R(100), RAdd(R(1), RDiv(gain, loss))))

NLt(a, b) == ~IsNone(a) /\ ~IsNone(b) /\ RLt(a, b)
NLe(a, b) == ~IsNone(a) /\ ~IsNone(b) /\ RLe(a, b)

\* calculate_ema, read at index k: ewm(span, adjust=False).mean()
RECURSIVE calculate_ema(_, _, _)
calculate_ema(data, period, k) ==
    IF k < 1 \/ k > Len(data) THEN NoneR
    ELSE IF k = 1 THEN R(data[1].close)
    ELSE RAdd(RMul(Rat(period - 1, period + 1), calculate_ema(data, period, k - 1)),
              RMul(Rat(2, period + 1), R(data[k].close)))

\* the RSI the crossover strategies filter with: neutral when there are too few bars
FilterRsi(sc, data) ==
    IF Len(data) >= sc.rsi_period THEN calculate_rsi(data, sc.rsi_period) ELSE R(50)

\* A faulty variant of the decision: in strict mode too, the averages of the
\* previous bar are not looked at.
crossover_signal_NoPrevious(sc, current_short, current_long, prev_short, prev_long, current_rsi) ==
    IF NLt(current_long, current_short)
    THEN (IF NLt(current_rsi, R(70)) THEN "BUY" ELSE "HOLD")
    ELSE IF NLt(current_short, current_long)
    THEN (IF NLt(R(30), current_rsi) THEN "SELL" ELSE "HOLD")
    ELSE "HOLD"

\* the decision both crossover strategies take from the averages and the RSI
crossover_signal(sc, current_short, current_long, prev_short, prev_long, current_rsi) ==
    IF sc.crossover_only \/ ~sc.trend_following
    THEN IF NLt(current_long, current_short) /\ NLe(prev_short, prev_long)
         THEN (IF NLt(current_rsi, R(70)) THEN "BUY" ELSE "HOLD")
         ELSE IF NLt(current_short, current_long) /\ NLe(prev_long, prev_short)
         THEN (IF NLt(R(30), current_rsi) THEN "SELL" ELSE "HOLD")
         ELSE "HOLD"
    ELSE IF NLt(current_long, current_short)
         THEN (IF NLt(current_rsi, R(70)) THEN "BUY" ELSE "HOLD")
         ELSE IF NLt(current_short, current_long)
         THEN (IF NLt(R(30), current_rsi) THEN "SELL" ELSE "HOLD")
         ELSE "HOLD"

\* sma_crossover_strategy, reading the STRATEGY_CONFIG sc
sma_crossover_with(sc, data) ==
    IF Len(data) < sc.sma_long THEN "HOLD"
    ELSE LET n == Len(data)
         IN  crossover_signal(sc,
                 calculate_sma(data, sc.sma_short, n),
                 calculate_sma(data, sc.sma_long, n),
                 IF n > 1 THEN calculate_sma(data, sc.sma_short, n - 1)
                          ELSE calculate_sma(data, sc.sma_short, n),
                 IF n > 1 THEN calculate_sma(data, sc.sma_long, n - 1)
                          ELSE calculate_sma(data, sc.sma_long, n),
                 FilterRsi(sc, data))

\* sma_crossover_strategy reads the global STRATEGY_CONFIG
sma_crossover_strategy(data) == sma_crossover_with(cfg.STRATEGY_CONFIG, data)

\* ema_crossover_strategy, reading the STRATEGY_CONFIG sc
ema_crossover_with(sc, data) ==
    IF Len(data) < sc.ema_long THEN "HOLD"
    ELSE LET n == Len(data)
         IN  crossover_signal(sc,
                 calculate_ema(data, sc.ema_short, n),
                 calculate_ema(data, sc.ema_long, n),
                 IF n > 1 THEN calculate_ema(data, sc.ema_short, n - 1)
                          ELSE calculate_ema(data, sc.ema_short, n),
                 IF n > 1 THEN calculate_ema(data, sc.ema_long, n - 1)
                          ELSE calculate_ema(data, sc.ema_long, n),
                 FilterRsi(sc, data))

\* rsi_strategy, reading the STRATEGY_CONFIG sc
rsi_with(sc, data) ==
    IF Len(data) < sc.rsi_period THEN "HOLD"
    ELSE LET current_rsi == calculate_rsi(data, sc.rsi_period)
         IN  IF NLt(current_rsi, R(sc.rsi_oversold)) THEN "BUY"
             ELSE IF NLt(R(sc.rsi_overbought), current_rsi) THEN "SELL"
             ELSE "HOLD"

\* rolling(period).var() of the closes at the last bar (ddof = 1): NaN for one bar
RollingVar(data, period) ==
    LET n == Len(data)
        mean == RollingMeanAt(Closes(data), period, n)
        sq == [i \in 1..n |-> RMul(RSub(R(data[i].close), mean),
                                   RSub(R(data[i].close), mean))]
        RECURSIVE SqSum(_)
        SqSum(i) == IF i > n THEN R(0) ELSE RAdd(sq[i], SqSum(i + 1))
    IN  IF period < 2 \/ IsNone(mean) THEN NoneR
        ELSE RDiv(SqSum(n - period + 1), R(period - 1))

\* bollinger_bands_strategy, reading the STRATEGY_CONFIG sc.  The bands are
\* middle -+ std_dev * std; price <= lower is decided on the squares.
bollinger_with(sc, data) ==
    IF Len(data) < sc.bollinger_period THEN "HOLD"
    ELSE LET n == Len(data)
             middle == RollingMeanAt(Closes(data), sc.bollinger_period, n)
             var == RollingVar(data, sc.bollinger_period)
             k2var == RMul(R(sc.bollinger_std * sc.bollinger_std), var)
             below == RSub(middle, R(data[n].close))
             above == RSub(R(data[n].close), middle)
         IN  IF IsNone(middle) \/ IsNone(var) THEN "HOLD"
             ELSE IF RLe(R(0), below) /\ RLe(k2var, RMul(below, below)) THEN "BUY"
             ELSE IF RLe(R(0), above) /\ RLe(k2var, RMul(above, above)) THEN "SELL"
             ELSE "HOLD"

\* what fetch_news_sentiment may return: None, or a score between -1 and 1
NoSentiment == NoneR
SentimentSet == {NoneR, Rat(-6, 10), Rat(-3, 10), R(0), Rat(3, 10), Rat(6, 10)}

\* generate_signal under the configuration c, with the sentiment the news
\* provider returns
generate_signal_with(c, data, strategy_type, sentiment) ==
    LET sc == c.STRATEGY_CONFIG
        signal == IF strategy_type = "SMA_CROSSOVER" THEN sma_crossover_with(sc, data)
                  ELSE IF strategy_type = "EMA_CROSSOVER" THEN ema_crossover_with(sc, data)
                  ELSE IF strategy_type = "RSI" THEN rsi_with(sc, data)
                  ELSE IF strategy_type = "BOLLINGER" THEN bollinger_with(sc, data)
                  ELSE sma_crossover_with(sc, data)
    IN  IF c.USE_SENTIMENT_ANALYSIS /\ ~IsNone(sentiment)
        THEN IF RLt(Rat(2, 10), sentiment) /\ signal = "HOLD" THEN "BUY"
             ELSE IF RLt(sentiment, Rat(-2, 10)) /\ signal = "HOLD" THEN "SELL"
             ELSE IF RLt(Rat(5, 10), sentiment) /\ signal = "SELL" THEN "HOLD"
             ELSE IF RLt(sentiment, Rat(-5, 10)) /\ signal = "BUY" THEN "HOLD"
             ELSE signal
        ELSE signal

\* generate_signal as a run calls it: it reads the global configuration, and
\* fetch_news_sentiment returns None while USE_SENTIMENT_ANALYSIS is off
generate_signal(data, strategy_type) ==
    generate_signal_with(cfg, data, strategy_type, NoSentiment)

(***************************************************************************)
(* Backtest (backtest.py).  The bar provider returns, for each symbol it   *)
(* has data for, MIN_BARS warm-up bars followed by FreeDays bars whose     *)
(* close is free; bar i carries date i.                                    *)
(***************************************************************************)
WarmUpCloses ==
    [i \in 1..MIN_BARS |-> IF i = MIN_BARS - 1 THEN 12 ELSE IF i = MIN_BARS THEN 8 ELSE 10]
NumDates == MIN_BARS + FreeDays
SymbolHistory(f) ==
    [i \in 1..NumDates |->
        Bar(i, IF i <= MIN_BARS THEN WarmUpCloses[i] ELSE f[i - MIN_BARS])]
SymbolHistories == {SymbolHistory(f) : f \in [1..FreeDays -> PriceSet]}
Histories == UNION {[S -> SymbolHistories] : S \in SUBSET SymbolSet}
Ranges == { [start |-> 1, end |-> NumDates],
            [start |-> NumDates + 1, end |-> NumDates + 1] }

\* A faulty variant of the date filter: the bars outside the range are kept.
FilterRange_Unfiltered(h, rng) == h

\* the date filter of Backtest.run on every symbol's bars
FilterRange(h, rng) ==
    [s \in DOMAIN h |->
        SelectSeq(h[s], LAMBDA b : b.date >= rng.start /\ b.date <= rng.end)]

RECURSIVE SortedSeq(_)
SortedSeq(S) ==
    IF S = {} THEN <<>>
    ELSE LET m == CHOOSE x \in S : \A y \in S : x <= y
         IN  <<m>> \o SortedSeq(S \ {m})

\* all_dates: the sorted union of the dates of all symbols
AllDates(hd) ==
    SortedSeq(UNION {{hd[s][i].date : i \in 1..Len(hd[s])} : s \in DOMAIN hd})

\* A faulty variant of the slice: it also takes the bar of the next date
data_slice_ahead(data, date) == SelectSeq(data, LAMBDA b : b.date <= date + 1)

\* data_slice = data[data.index <= date]
data_slice(data, date) == SelectSeq(data, LAMBDA b : b.date <= date)

\* the prices dict of a date: the last close of every symbol that has a bar by then
DatePrices(hd, date) ==
    [s \in {x \in DOMAIN hd : Len(data_slice(hd[x], date)) > 0} |->
        LET sl == data_slice(hd[s], date) IN sl[Len(sl)].close]

TradeRecord(date, symbol, action, quantity, price, reason) ==
    [date |-> date, symbol |-> symbol, action |-> action, quantity |-> quantity,
     price |-> price, reason |-> reason]

\* A run is the part of a Backtest that its loop changes.
Run(pf, tr, res, ex) == [portfolio |-> pf, trades |-> tr, results |-> res, raised |-> ex]

\* the top of the date loop: prices, update_prices, check_risk_limits
BeginDateOp(run, hd, date) ==
    LET px == DatePrices(hd, date)
        u == update_prices(run.portfolio, px)
        c == check_risk_limits(u.pf, px)
    IN  IF u.raised THEN [run |-> [run EXCEPT !.portfolio = u.pf, !.raised = TRUE],
                          px |-> px, alerts |-> <<>>]
        ELSE [run |-> [run EXCEPT !.portfolio = c.pf, !.raised = c.raised],
              px |-> px, alerts |-> c.alerts]

\* the body of the loop over risk_alerts, for the alert of one symbol
StopExitOp(run, px, date, symbol) ==
    IF symbol \notin Held(run.portfolio) THEN run
    ELSE LET pos == get_position(run.portfolio, symbol)
             qty == pos.quantity
             price == IF symbol \in DOMAIN px THEN px[symbol] ELSE Trunc(pos.current_price)
         IN  [run EXCEPT
                !.portfolio = remove_position(run.portfolio, symbol, -qty, price),
                !.trades = Append(run.trades,
                    TradeRecord(date, symbol, IF qty > 0 THEN "SELL" ELSE "BUY",
                                Abs(qty), price, "STOP_LOSS"))]

\* the risk-based position size of a BUY, after "at least 1 share"
PositionSizeWith(c, portfolio_value, cash, current_price, current_atr) ==
    LET risk_per_trade == RMul(portfolio_value, Rat(1, 100))
        stop_distance == RMul(current_atr, ATR_MULTIPLIER)
        qty_by_risk == IF RLt(R(0), stop_distance)
                       THEN Trunc(RDiv(risk_per_trade, stop_distance)) ELSE 1
        max_position_value == RMul(portfolio_value, Rat(20, 100))
        qty_by_cap == IF current_price > 0
                      THEN Trunc(RDiv(max_position_value, R(current_price))) ELSE 0
        max_by_cash == IF current_price > 0
                       THEN Trunc(Rat(cash, current_price)) ELSE 0
        qty == Min2(Min2(qty_by_risk, qty_by_cap), Min2(c.MAX_POSITION_SIZE, max_by_cash))
    IN  Max2(1, qty)

\* the size as a run computes it: MAX_POSITION_SIZE is imported from config at
\* the moment of the BUY
PositionSize(portfolio_value, cash, current_price, current_atr) ==
    PositionSizeWith(cfg, portfolio_value, cash, current_price, current_atr)

\* A faulty variant: a BUY is executed without the check that cash covers it.
ProcessSymbolWith_NoCashCheck(c, run, hd, px, date, symbol) ==
    IF symbol \notin DOMAIN px THEN run
    ELSE LET sl == data_slice(hd[symbol], date)
         IN  IF Len(sl) < MIN_BARS THEN run
             ELSE LET signal == generate_signal_with(c, sl, "SMA_CROSSOVER", NoSentiment)
                      current_price == px[symbol]
                      current_position == get_position_quantity(run.portfolio, symbol)
                  IN  IF signal = "BUY" /\ current_position = 0
                      THEN LET current_atr == calculate_atr(sl, ATR_PERIOD)
                               t == get_total_value(run.portfolio, px)
                               qty == PositionSizeWith(c, t.value, t.pf.cash,
                                                       current_price, current_atr)
                           IN  IF t.raised
                               THEN [run EXCEPT !.portfolio = t.pf, !.raised = TRUE]
                               ELSE IF qty > 0
                               THEN [run EXCEPT
                                      !.portfolio = add_position(t.pf, symbol, qty,
                                                        current_price, current_atr),
                                      !.trades = Append(run.trades,
                                          TradeRecord(date, symbol, "BUY", qty,
                                                      current_price, "Signal"))]
                               ELSE [run EXCEPT !.portfolio = t.pf]
                      ELSE IF signal = "SELL" /\ current_position > 0
                      THEN [run EXCEPT
                             !.portfolio = remove_position(run.portfolio, symbol,
                                               -current_position, current_price),
                             !.trades = Append(run.trades,
                                 TradeRecord(date, symbol, "SELL", current_position,
                                             current_price, "Signal"))]
                      ELSE run

\* the body of the loop over self.symbols, for one symbol, under the
\* configuration c
ProcessSymbolWith(c, run, hd, px, date, symbol) ==
    IF symbol \notin DOMAIN px THEN run
    ELSE LET sl == data_slice(hd[symbol], date)
         IN  IF Len(sl) < MIN_BARS THEN run
             ELSE LET signal == generate_signal_with(c, sl, "SMA_CROSSOVER", NoSentiment)
                      current_price == px[symbol]
                      current_position == get_position_quantity(run.portfolio, symbol)
                  IN  IF signal = "BUY" /\ current_position = 0
                      THEN LET current_atr == calculate_atr(sl, ATR_PERIOD)
                               t == get_total_value(run.portfolio, px)
                               qty == PositionSizeWith(c, t.value, t.pf.cash,
                                                       current_price, current_atr)
                           IN  IF t.raised
                               THEN [run EXCEPT !.portfolio = t.pf, !.raised = TRUE]
                               ELSE IF qty > 0 /\ t.pf.cash >= current_price * qty
                               THEN [run EXCEPT
                                      !.portfolio = add_position(t.pf, symbol, qty,
                                                        current_price, current_atr),
                                      !.trades = Append(run.trades,
                                          TradeRecord(date, symbol, "BUY", qty,
                                                      current_price, "Signal"))]
                               ELSE [run EXCEPT !.portfolio = t.pf]
                      ELSE IF signal = "SELL" /\ current_position > 0
                      THEN [run EXCEPT
                             !.portfolio = remove_position(run.portfolio, symbol,
                                               -current_position, current_price),
                             !.trades = Append(run.trades,
                                 TradeRecord(date, symbol, "SELL", current_position,
                                             current_price, "Signal"))]
                      ELSE run

\* generate_signal, or a computation on its result, raises while this symbol is
\* processed on this date (for one, int() of a NaN portfolio value when the
\* close of a held symbol is NaN); the call is reached only for a symbol with
\* a price and at least MIN_BARS bars
SignalRaises(hd, px, date, symbol) ==
    /\ fault = [date |-> date, symbol |-> symbol]
    /\ symbol \in DOMAIN px
    /\ Len(data_slice(hd[symbol], date)) >= MIN_BARS

\* the body of the loop as a run executes it: it reads the global configuration
ProcessSymbol(run, hd, px, date, symbol) ==
    ProcessSymbolWith(cfg, run, hd, px, date, symbol)

RECURSIVE PnlFrom(_, _)
PnlFrom(pf, i) ==
    IF i > Len(pf.positions) THEN R(0)
    ELSE RAdd(get_pnl(pf.positions[i]), PnlFrom(pf, i + 1))

\* Portfolio.get_total_pnl_percent, given the total value
PnlPercent(pf, total_value) ==
    IF pf.initial_cash = 0 THEN R(0)
    ELSE RMul(RDiv(RSub(total_value, R(pf.initial_cash)), R(pf.initial_cash)), R(100))

\* A faulty variant: a date on which nothing was traded records no snapshot.
SnapshotOp_IfTraded(run, px, date) ==
    LET t == get_total_value(run.portfolio, px)
    IN  IF t.raised THEN [run EXCEPT !.portfolio = t.pf, !.raised = TRUE]
        ELSE IF \A i \in 1..Len(run.trades) : run.trades[i].date # date
        THEN [run EXCEPT !.portfolio = t.pf]
        ELSE [run EXCEPT
               !.portfolio = t.pf,
               !.results = Append(run.results,
                   [date |-> date, total_value |-> t.value, cash |-> t.pf.cash,
                    pnl |-> PnlFrom(t.pf, 1), pnl_percent |-> PnlPercent(t.pf, t.value)])]

\* the snapshot appended to daily_results at the end of every date
SnapshotOp(run, px, date) ==
    LET t == get_total_value(run.portfolio, px)
    IN  IF t.raised THEN [run EXCEPT !.portfolio = t.pf, !.raised = TRUE]
        ELSE [run EXCEPT
               !.portfolio = t.pf,
               !.results = Append(run.results,
                   [date |-> date, total_value |-> t.value, cash |-> t.pf.cash,
                    pnl |-> PnlFrom(t.pf, 1), pnl_percent |-> PnlPercent(t.pf, t.value)])]

(***************************************************************************)
(* A client calling the Portfolio directly (main.py, example_usage.py).    *)
(***************************************************************************)
Call(op, symbol, quantity, price, atr, px, value) ==
    [op |-> op, symbol |-> symbol, quantity |-> quantity, price |-> price,
     atr |-> atr, px |-> px, value |-> value]
NoCall == Call("none", "", 0, 0, NoneR, <<>>, NoneR)
NoSummary == [returned |-> FALSE]

IdleRun ==
    /\ hist = <<>>
    /\ range = [start |-> 1, end |-> 0]
    /\ historical_data = <<>>
    /\ all_dates = <<>>
    /\ pc = "idle"
    /\ dateIdx = 0
    /\ prices = <<>>
    /\ alerts = <<>>
    /\ symIdx = 0
    /\ trades = <<>>
    /\ results = <<>>
    /\ summary = NoSummary
    /\ hist2 = <<>>
    /\ run2 = <<>>
    /\ IdleOptimizer

InitPortfolio ==
    /\ \E ic \in InitialCashSet : portfolio = NewPortfolio(ic)
    /\ raised = FALSE
    /\ fault = NoFault
    /\ metrics = NoMetrics
    /\ last = NoCall
    /\ nops = 0
    /\ IdleRun

AddPosition ==
    /\ pc = "idle" /\ nops < MaxOps
    /\ \E s \in ClientSymbols, q \in Quantities, p \in PriceSet, a \in AtrSet :
          /\ portfolio' = add_position(portfolio, s, q, p, a)
          /\ last' = Call("add_position", s, q, p, a, <<>>, NoneR)
    /\ raised' = FALSE
    /\ nops' = nops + 1
    /\ UNCHANGED ovars
    /\ UNCHANGED bvars

RemovePosition ==
    /\ pc = "idle" /\ nops < MaxOps
    /\ \E s \in ClientSymbols, q \in Quantities, p \in PriceSet :
          /\ portfolio' = remove_position(portfolio, s, q, p)
          /\ last' = Call("remove_position", s, q, p, NoneR, <<>>, NoneR)
    /\ raised' = FALSE
    /\ nops' = nops + 1
    /\ UNCHANGED ovars
    /\ UNCHANGED bvars

UpdatePrices ==
    /\ pc = "idle" /\ nops < MaxOps
    /\ \E px \in ClientPriceDicts :
          LET u == update_prices(portfolio, px)
          IN  /\ portfolio' = u.pf
              /\ raised' = u.raised
              /\ last' = Call("update_prices", "", 0, 0, NoneR, px, NoneR)
    /\ nops' = nops + 1
    /\ UNCHANGED ovars
    /\ UNCHANGED bvars

GetTotalValue ==
    /\ pc = "idle" /\ nops < MaxOps
    /\ \E px \in ClientPriceDicts :
          LET t == get_total_value(portfolio, px)
          IN  /\ portfolio' = t.pf
              /\ raised' = t.raised
              /\ last' = Call("get_total_value", "", 0, 0, NoneR, px,
                              IF t.raised THEN NoneR ELSE t.value)
    /\ nops' = nops + 1
    /\ UNCHANGED ovars
    /\ UNCHANGED bvars

CheckRiskLimits ==
    /\ pc = "idle" /\ nops < MaxOps
    /\ \E px \in ClientPriceDicts :
          LET c == check_risk_limits(portfolio, px)
          IN  /\ portfolio' = c.pf
              /\ raised' = c.raised
              /\ last' = Call("check_risk_limits", "", 0, 0, NoneR, px, NoneR)
    /\ nops' = nops + 1
    /\ UNCHANGED ovars
    /\ UNCHANGED bvars

NextPortfolio ==
    \/ AddPosition
    \/ RemovePosition
    \/ UpdatePrices
    \/ GetTotalValue
    \/ CheckRiskLimits

SpecPortfolio == InitPortfolio /\ [][NextPortfolio]_vars

(***************************************************************************)
(* Backtest.run, one action per step of its loops.                         *)
(***************************************************************************)
CurrentRun == Run(portfolio, trades, results, raised)

RECURSIVE BuyHoldFrom(_, _)
BuyHoldFrom(hd, k) ==
    IF k > Len(Symbols) THEN R(0)
    ELSE LET s == Symbols[k]
             rest == BuyHoldFrom(hd, k + 1)
         IN  IF s \in DOMAIN hd /\ Len(hd[s]) > 0
             THEN LET start_price == hd[s][1].close
                      end_price == hd[s][Len(hd[s])].close
                      symbol_return == RMul(Rat(end_price - start_price, start_price), R(100))
                  IN  RAdd(RDiv(symbol_return, R(Len(Symbols))), rest)
             ELSE rest

\* the final statistics Backtest.run returns
ResultsSummary(final_value, num_trades, hd) ==
    LET total_return == RMul(RDiv(RSub(final_value, R(INITIAL_CASH)), R(INITIAL_CASH)), R(100))
        buy_hold_total == BuyHoldFrom(hd, 1)
    IN  [ returned |-> TRUE, empty |-> FALSE,
          initial_cash |-> INITIAL_CASH,
          final_value |-> final_value,
          total_return |-> total_return,
          total_pnl |-> RSub(final_value, R(INITIAL_CASH)),
          num_trades |-> num_trades,
          buy_hold_return |-> buy_hold_total,
          vs_buy_hold |-> RSub(total_return, buy_hold_total) ]
EmptySummary == [returned |-> TRUE, empty |-> TRUE]

InitBacktest ==
    /\ \E ic \in InitialCashSet : portfolio = NewPortfolio(ic)
    /\ raised = FALSE
    /\ last = NoCall
    /\ nops = 0
    /\ hist \in Histories
    /\ range \in Ranges
    /\ historical_data = <<>>
    /\ all_dates = <<>>
    /\ pc = "init"
    /\ dateIdx = 0
    /\ prices = <<>>
    /\ alerts = <<>>
    /\ symIdx = 0
    /\ trades = <<>>
    /\ results = <<>>
    /\ summary = NoSummary
    /\ hist2 = <<>>
    /\ run2 = <<>>
    /\ IdleOptimizer

Init ==
    /\ InitBacktest
    /\ fault = NoFault
    /\ metrics = NoMetrics

\* fetch, filter to the date range, collect the dates; return {} when there are none
RunStart ==
    /\ pc = "init"
    /\ IF DOMAIN hist = {}
       THEN /\ pc' = "done" /\ summary' = EmptySummary
            /\ UNCHANGED <<historical_data, all_dates, dateIdx>>
       ELSE LET hd == FilterRange(hist, range)
                dates == AllDates(hd)
            IN  /\ historical_data' = hd
                /\ all_dates' = dates
                /\ IF dates = <<>>
                   THEN pc' = "done" /\ summary' = EmptySummary /\ dateIdx' = dateIdx
                   ELSE pc' = "date" /\ summary' = summary /\ dateIdx' = 1
    /\ UNCHANGED ovars
    /\ UNCHANGED <<portfolio, raised, last, nops, hist, hist2, run2, range, prices, alerts,
                   symIdx, trades, results>>

\* an exception leaves run(): nothing is returned
Leave(run) ==
    /\ portfolio' = run.portfolio
    /\ trades' = run.trades
    /\ results' = run.results
    /\ raised' = run.raised

BeginDate ==
    /\ pc = "date"
    /\ \E b \in {BeginDateOp(CurrentRun, historical_data, all_dates[dateIdx])} :
           /\ Leave(b.run)
           /\ prices' = b.px
           /\ alerts' = b.alerts
           /\ pc' = IF b.run.raised THEN "raised"
                    ELSE IF b.alerts # <<>> THEN "alerts" ELSE "signals"
    /\ symIdx' = 1
    /\ UNCHANGED ovars
    /\ UNCHANGED <<last, nops, hist, hist2, run2, range, historical_data, all_dates, dateIdx, summary>>

StopExit ==
    /\ pc = "alerts"
    /\ \E run \in {StopExitOp(CurrentRun, prices, all_dates[dateIdx], Head(alerts))} :
           Leave(run)
    /\ alerts' = Tail(alerts)
    /\ pc' = IF Tail(alerts) # <<>> THEN "alerts" ELSE "signals"
    /\ UNCHANGED ovars
    /\ UNCHANGED <<last, nops, hist, hist2, run2, range, historical_data, all_dates, dateIdx, prices, symIdx, summary>>

SignalStep ==
    /\ pc = "signals"
    /\ \E run \in {IF SignalRaises(historical_data, prices, all_dates[dateIdx],
                                    Symbols[symIdx])
                    THEN [CurrentRun EXCEPT !.raised = TRUE]
                    ELSE ProcessSymbol(CurrentRun, historical_data, prices,
                                       all_dates[dateIdx], Symbols[symIdx])} :
           /\ Leave(run)
           /\ pc' = IF run.raised THEN "raised"
                    ELSE IF symIdx = Len(Symbols) THEN "snapshot" ELSE "signals"
    /\ symIdx' = symIdx + 1
    /\ UNCHANGED ovars
    /\ UNCHANGED <<last, nops, hist, hist2, run2, range, historical_data, all_dates, dateIdx, prices, alerts, summary>>

Snapshot ==
    /\ pc = "snapshot"
    /\ \E run \in {SnapshotOp(CurrentRun, prices, all_dates[dateIdx])} :
           /\ Leave(run)
           /\ pc' = IF run.raised THEN "raised"
                    ELSE IF dateIdx = Len(all_dates) THEN "final" ELSE "date"
    /\ dateIdx' = dateIdx + 1
    /\ UNCHANGED ovars
    /\ UNCHANGED <<last, nops, hist, hist2, run2, range, historical_data, all_dates, prices, alerts, symIdx, summary>>

Finish ==
    /\ pc = "final"
    /\ \E t \in {get_total_value(portfolio, prices)} :
           /\ portfolio' = t.pf
           /\ raised' = t.raised
           /\ pc' = IF t.raised THEN "raised" ELSE "done"
           /\ summary' = IF t.raised THEN summary
                         ELSE ResultsSummary(t.value, Len(trades), historical_data)
    /\ UNCHANGED ovars
    /\ UNCHANGED <<last, nops, hist, hist2, run2, range, historical_data, all_dates, dateIdx, prices, alerts, symIdx, trades,
                   results>>

Next ==
    \/ RunStart
    \/ BeginDate
    \/ StopExit
    \/ SignalStep
    \/ Snapshot
    \/ Finish

Spec == Init /\ [][Next]_vars

(***************************************************************************)
(* The same run when one step of the loop over the symbols raises.         *)
(***************************************************************************)
Faults ==
    {NoFault} \cup [date : {MIN_BARS, MIN_BARS + 1}, symbol : SymbolSet]

InitFault ==
    /\ InitBacktest
    /\ fault \in Faults
    /\ metrics = NoMetrics

SpecFault == InitFault /\ [][Next]_vars

(***************************************************************************)
(* The same run on one symbol with ScenarioBars bars that are flat up to   *)
(* bar k, move by a per bar for three bars, then by b per bar, and by c    *)
(* per bar over the last three bars.                                       *)
(***************************************************************************)
ScenarioBars == 30
FlatClose == 100
ScenarioCloses(k, a, b, c) ==
    [i \in 1..ScenarioBars |->
        IF i <= k THEN FlatClose
        ELSE IF i <= k + 3 THEN FlatClose + a * (i - k)
        ELSE IF i <= ScenarioBars - 3 THEN FlatClose + 3 * a + b * (i - k - 3)
        ELSE FlatClose + 3 * a + b * (ScenarioBars - 3 - k - 3)
                       + c * (i - (ScenarioBars - 3))]
ScenarioHistory(k, a, b, c) ==
    [s \in {Symbols[1]} |->
        [i \in 1..ScenarioBars |-> Bar(i, ScenarioCloses(k, a, b, c)[i])]]
ScenarioHistories ==
    { ScenarioHistory(k, a, b, c) :
        k \in (MIN_BARS - 6)..(MIN_BARS + 4), a \in {-2, 1, 2}, b \in {1, 2},
        c \in {-15, 1, 2} }

InitScenario ==
    /\ portfolio = NewPortfolio(INITIAL_CASH)
    /\ raised = FALSE
    /\ fault = NoFault
    /\ metrics = NoMetrics
    /\ last = NoCall
    /\ nops = 0
    /\ hist \in ScenarioHistories
    /\ range = [start |-> 1, end |-> ScenarioBars]
    /\ historical_data = <<>>
    /\ all_dates = <<>>
    /\ pc = "init"
    /\ dateIdx = 0
    /\ prices = <<>>
    /\ alerts = <<>>
    /\ symIdx = 0
    /\ trades = <<>>
    /\ results = <<>>
    /\ summary = NoSummary
    /\ hist2 = <<>>
    /\ run2 = <<>>
    /\ IdleOptimizer

SpecScenario == InitScenario /\ [][Next]_vars

(***************************************************************************)
(* Two Backtests side by side, for what a run may depend on.  The second   *)
(* is given the bars of the first up to a date d and none after it.  Two   *)
(* histories that agree up to d have the same truncation at d, so a run    *)
(* that agrees with the run on its own truncation agrees with every run    *)
(* whose bars agree with it up to d.                                       *)
(***************************************************************************)
Truncate(h, d) == [s \in DOMAIN h |-> SelectSeq(h[s], LAMBDA b : b.date <= d)]
FullRange == [start |-> 1, end |-> NumDates]
\* The warm-up closes are flat up to the bar before MIN_BARS - 1, and no signal
\* is computed before MIN_BARS bars: earlier cuts leave nothing to tell apart.
FirstCut == MIN_BARS - 2
\* the second Backtest: its run, and the locals of run() that the loop reads
Run2(run, hd, dates, px, al) ==
    [portfolio |-> run.portfolio, trades |-> run.trades, results |-> run.results,
     raised |-> run.raised, historical_data |-> hd, all_dates |-> dates,
     prices |-> px, alerts |-> al]

InitPair ==
    /\ \E ic \in InitialCashSet :
          /\ portfolio = NewPortfolio(ic)
          /\ run2 = Run2(Run(NewPortfolio(ic), <<>>, <<>>, FALSE), <<>>, <<>>, <<>>, <<>>)
    /\ raised = FALSE
    /\ fault = NoFault
    /\ metrics = NoMetrics
    /\ last = NoCall
    /\ nops = 0
    /\ hist \in {h \in Histories : DOMAIN h # {}}
    /\ \E d \in FirstCut..(NumDates - 1) : hist2 = Truncate(hist, d)
    /\ range = FullRange
    /\ historical_data = <<>>
    /\ all_dates = <<>>
    /\ pc = "init"
    /\ dateIdx = 0
    /\ prices = <<>>
    /\ alerts = <<>>
    /\ symIdx = 0
    /\ trades = <<>>
    /\ results = <<>>
    /\ summary = NoSummary
    /\ IdleOptimizer

\* both runs fetch and filter their bars
PairStart ==
    /\ pc = "init"
    /\ historical_data' = FilterRange(hist, range)
    /\ all_dates' = AllDates(FilterRange(hist, range))
    /\ run2' = Run2(run2, FilterRange(hist2, range), AllDates(FilterRange(hist2, range)),
                    <<>>, <<>>)
    /\ pc' = "pair_date"
    /\ dateIdx' = 1
    /\ UNCHANGED ovars
    /\ UNCHANGED <<portfolio, raised, last, nops, hist, hist2, range, prices, alerts,
                   symIdx, trades, results, summary>>

\* both runs begin their next date, as long as the second has one
PairBeginDate ==
    /\ pc = "pair_date"
    /\ dateIdx <= Len(run2.all_dates)
    /\ \E b \in {BeginDateOp(CurrentRun, historical_data, all_dates[dateIdx])},
          c \in {BeginDateOp(run2, run2.historical_data, run2.all_dates[dateIdx])} :
           /\ Leave(b.run)
           /\ prices' = b.px
           /\ alerts' = b.alerts
           /\ run2' = [c.run EXCEPT !.prices = c.px, !.alerts = c.alerts]
           /\ pc' = IF b.run.raised \/ c.run.raised THEN "raised"
                    ELSE IF b.alerts # <<>> \/ c.alerts # <<>> THEN "pair_alerts"
                    ELSE "pair_signals"
    /\ symIdx' = 1
    /\ UNCHANGED ovars
    /\ UNCHANGED <<last, nops, hist, hist2, range, historical_data, all_dates, dateIdx,
                   summary>>

\* each run that has an alert left handles its next one
PairStopExit ==
    /\ pc = "pair_alerts"
    /\ IF alerts # <<>>
       THEN /\ \E run \in {StopExitOp(CurrentRun, prices, all_dates[dateIdx],
                                       Head(alerts))} : Leave(run)
            /\ alerts' = Tail(alerts)
       ELSE UNCHANGED <<portfolio, trades, results, raised, alerts>>
    /\ run2' = IF run2.alerts # <<>>
               THEN [StopExitOp(run2, run2.prices, run2.all_dates[dateIdx],
                                Head(run2.alerts))
                       EXCEPT !.alerts = Tail(run2.alerts)]
               ELSE run2
    /\ pc' = IF Len(alerts) <= 1 /\ Len(run2.alerts) <= 1 THEN "pair_signals"
             ELSE "pair_alerts"
    /\ UNCHANGED ovars
    /\ UNCHANGED <<last, nops, hist, hist2, range, historical_data, all_dates, dateIdx,
                   prices, symIdx, summary>>

\* both runs process the next symbol of self.symbols
PairSignalStep ==
    /\ pc = "pair_signals"
    /\ \E r \in {ProcessSymbol(CurrentRun, historical_data, prices,
                                all_dates[dateIdx], Symbols[symIdx])},
          q \in {ProcessSymbol(run2, run2.historical_data, run2.prices,
                                run2.all_dates[dateIdx], Symbols[symIdx])} :
           /\ Leave(r)
           /\ run2' = q
           /\ pc' = IF r.raised \/ q.raised THEN "raised"
                    ELSE IF symIdx = Len(Symbols) THEN "pair_snapshot"
                    ELSE "pair_signals"
    /\ symIdx' = symIdx + 1
    /\ UNCHANGED ovars
    /\ UNCHANGED <<last, nops, hist, hist2, range, historical_data, all_dates, dateIdx,
                   prices, alerts, summary>>

\* both runs record the snapshot of the date
PairSnapshot ==
    /\ pc = "pair_snapshot"
    /\ \E r \in {SnapshotOp(CurrentRun, prices, all_dates[dateIdx])},
          q \in {SnapshotOp(run2, run2.prices, run2.all_dates[dateIdx])} :
           /\ Leave(r)
           /\ run2' = q
           /\ pc' = IF r.raised \/ q.raised THEN "raised" ELSE "pair_date"
    /\ dateIdx' = dateIdx + 1
    /\ UNCHANGED ovars
    /\ UNCHANGED <<last, nops, hist, hist2, range, historical_data, all_dates, prices,
                   alerts, symIdx, summary>>

NextPair ==
    \/ PairStart
    \/ PairBeginDate
    \/ PairStopExit
    \/ PairSignalStep
    \/ PairSnapshot

SpecPair == InitPair /\ [][NextPair]_vars

(***************************************************************************)
(* StrategyOptimizer (optimizer.py).  A sharpe ratio is mean / std *        *)
(* sqrt(252): it is kept as the pair of the mean and the variance of the    *)
(* daily pnl_percent, and a score as its rational part and the sharpe ratio *)
(* that enters it with weight 10 * 0.2.                                     *)
(***************************************************************************)
Sharpe(mean, var) == [mean |-> mean, var |-> var]
ZeroSharpe == Sharpe(R(0), R(1))
Score(rational, sharpe) == [rational |-> rational, sharpe |-> sharpe]

\* the metrics of a failed run: there is no num_trades among them
FailedMetrics ==
    [ total_return |-> R(-100), sharpe_ratio |-> ZeroSharpe, max_drawdown |-> R(100),
      win_rate |-> R(0), profit_factor |-> R(0), score |-> Score(R(-1000), ZeroSharpe) ]

\* A faulty variant: only a BUY and a SELL of the same symbol are paired.
RECURSIVE AnalyzeTrades_SameSymbol(_, _, _)
AnalyzeTrades_SameSymbol(tr, i, acc) ==
    IF i > Len(tr) - 1 THEN acc
    ELSE IF tr[i].action = "BUY" /\ tr[i + 1].action = "SELL"
            /\ tr[i].symbol = tr[i + 1].symbol
    THEN LET profit == (tr[i + 1].price - tr[i].price) * tr[i].quantity
         IN  AnalyzeTrades_SameSymbol(tr, i + 1,
                 IF profit > 0
                 THEN [acc EXCEPT !.winning_trades = @ + 1, !.total_profit = @ + profit]
                 ELSE [acc EXCEPT !.total_loss = @ + Abs(profit)])
    ELSE AnalyzeTrades_SameSymbol(tr, i + 1, acc)

\* A faulty variant: the losing round trips are not added to the gross loss.
RECURSIVE AnalyzeTrades_NoLoss(_, _, _)
AnalyzeTrades_NoLoss(tr, i, acc) ==
    IF i > Len(tr) - 1 THEN acc
    ELSE IF tr[i].action = "BUY" /\ tr[i + 1].action = "SELL"
    THEN LET profit == (tr[i + 1].price - tr[i].price) * tr[i].quantity
         IN  AnalyzeTrades_NoLoss(tr, i + 1,
                 IF profit > 0
                 THEN [acc EXCEPT !.winning_trades = @ + 1, !.total_profit = @ + profit]
                 ELSE acc)
    ELSE AnalyzeTrades_NoLoss(tr, i + 1, acc)

\* the loop over consecutive trades: a BUY followed by a SELL is a round trip
RECURSIVE AnalyzeTrades(_, _, _)
AnalyzeTrades(tr, i, acc) ==
    IF i > Len(tr) - 1 THEN acc
    ELSE IF tr[i].action = "BUY" /\ tr[i + 1].action = "SELL"
    THEN LET profit == (tr[i + 1].price - tr[i].price) * tr[i].quantity
         IN  AnalyzeTrades(tr, i + 1,
                 IF profit > 0
                 THEN [acc EXCEPT !.winning_trades = @ + 1, !.total_profit = @ + profit]
                 ELSE [acc EXCEPT !.total_loss = @ + Abs(profit)])
    ELSE AnalyzeTrades(tr, i + 1, acc)

\* min over the days of (total_value - running max) / running max * 100
RECURSIVE MaxDrawdownFrom(_, _, _, _)
MaxDrawdownFrom(daily, i, running_max, lowest) ==
    IF i > Len(daily) THEN lowest
    ELSE LET v == daily[i].total_value
             m == IF IsNone(running_max) \/ RLt(running_max, v) THEN v ELSE running_max
             dd == RMul(RDiv(RSub(v, m), m), R(100))
         IN  MaxDrawdownFrom(daily, i + 1, m,
                             IF IsNone(lowest) \/ RLt(dd, lowest) THEN dd ELSE lowest)

RECURSIVE LcmDen(_, _)
LcmDen(daily, i) ==
    IF i > Len(daily) THEN 1
    ELSE LET d == daily[i].pnl_percent[2]
             l == LcmDen(daily, i + 1)
         IN  (d \div GCD(d, l)) * l

\* mean and variance (ddof = 1) of the pnl_percent column, over the common
\* denominator of its values
SharpeOf(daily) ==
    LET N == Len(daily)
        D == LcmDen(daily, 1)
        m == [i \in 1..N |-> daily[i].pnl_percent[1] * (D \div daily[i].pnl_percent[2])]
        sq == [i \in 1..N |-> m[i] * m[i]]
        S == SumFrom(m, 1, N)
        Q == SumFrom(sq, 1, N)
    IN  IF N > 1 /\ N * Q - S * S > 0
        THEN Sharpe(Rat(S, N * D), Rat(N * Q - S * S, N * (N - 1) * D * D))
        ELSE ZeroSharpe

\* StrategyOptimizer.evaluate_performance of what Backtest.run returned: the
\* summary res, with the trades tr and the daily results in it
\* A faulty variant: a run without trades is taken for a failed run.
evaluate_performance_NoTradesFailed(res, tr, daily) == FailedMetrics

evaluate_performance(res, tr, daily) ==
    IF ~res.returned \/ res.empty THEN FailedMetrics
    ELSE IF Len(tr) = 0
    THEN [ total_return |-> res.total_return, sharpe_ratio |-> ZeroSharpe,
           max_drawdown |-> R(0), win_rate |-> R(0), profit_factor |-> R(0),
           num_trades |-> 0, score |-> Score(res.total_return, ZeroSharpe) ]
    ELSE LET a == AnalyzeTrades(tr, 1,
                      [winning_trades |-> 0, total_profit |-> 0, total_loss |-> 0])
             win_rate == RMul(Rat(a.winning_trades, Len(tr)), R(100))
             profit_factor == IF a.total_loss > 0 THEN Rat(a.total_profit, a.total_loss)
                              ELSE IF a.total_profit > 0 THEN R(a.total_profit) ELSE R(0)
             max_drawdown == IF daily # <<>> THEN MaxDrawdownFrom(daily, 1, NoneR, NoneR)
                             ELSE R(0)
             sharpe_ratio == SharpeOf(daily)
             pf5 == IF RLt(R(5), profit_factor) THEN R(5) ELSE profit_factor
             dd50 == IF RLt(max_drawdown, R(-50)) THEN R(-50) ELSE max_drawdown
             rational == RAdd(RAdd(RMul(res.total_return, Rat(4, 10)),
                                   RMul(win_rate, Rat(2, 10))),
                              RAdd(pf5, RMul(dd50, Rat(1, 10))))
         IN  [ total_return |-> res.total_return, sharpe_ratio |-> sharpe_ratio,
               max_drawdown |-> max_drawdown, win_rate |-> win_rate,
               profit_factor |-> profit_factor, num_trades |-> Len(tr),
               total_profit |-> a.total_profit, total_loss |-> a.total_loss,
               score |-> Score(rational, sharpe_ratio) ]

(***************************************************************************)
(* test_configuration calls whose steps interleave: every call has its own  *)
(* Backtest, and all of them write and read the one configuration cfg.      *)
(***************************************************************************)
Threads == {1, 2}
\* the configurations under test (generate_configurations, mode "grid")
TestConfigs ==
    << [ max_position_size |-> 5,
         stop_loss_percent |-> Rat(1, 100), take_profit_percent |-> Rat(3, 100),
         strategy_config |-> [ sma_short |-> 3, sma_long |-> 15,
                               trend_following |-> TRUE, crossover_only |-> FALSE ] ],
       [ max_position_size |-> 10,
         stop_loss_percent |-> Rat(3, 100), take_profit_percent |-> Rat(7, 100),
         strategy_config |-> [ sma_short |-> 5, sma_long |-> 20,
                               trend_following |-> FALSE, crossover_only |-> TRUE ] ] >>
\* the bars the provider returns to an optimizer: one symbol, or none
OptimizerHistories == {h \in Histories : DOMAIN h \subseteq {Symbols[1]}}

\* STRATEGY_CONFIG[key] = value for every key of the test configuration, and
\* cfg.STOP_LOSS_PERCENT, cfg.TAKE_PROFIT_PERCENT and cfg.MAX_POSITION_SIZE =
\* config.get(..., the value as it is)
ApplyConfig(c, config) ==
    [c EXCEPT
       !.STRATEGY_CONFIG = [k \in DOMAIN c.STRATEGY_CONFIG |->
                               IF k \in DOMAIN config.strategy_config
                               THEN config.strategy_config[k]
                               ELSE c.STRATEGY_CONFIG[k]],
       !.STOP_LOSS_PERCENT = config.stop_loss_percent,
       !.TAKE_PROFIT_PERCENT = config.take_profit_percent,
       !.MAX_POSITION_SIZE = config.max_position_size]
\* the original values a call saves, and puts back in its finally block
SavedConfig(c) ==
    [STRATEGY_CONFIG |-> c.STRATEGY_CONFIG, STOP_LOSS_PERCENT |-> c.STOP_LOSS_PERCENT,
     TAKE_PROFIT_PERCENT |-> c.TAKE_PROFIT_PERCENT,
     MAX_POSITION_SIZE |-> c.MAX_POSITION_SIZE]
\* A faulty variant: the two risk percentages are not put back.
RestoreConfig_StrategyOnly(c, original) ==
    [c EXCEPT !.STRATEGY_CONFIG = original.STRATEGY_CONFIG,
              !.MAX_POSITION_SIZE = original.MAX_POSITION_SIZE]
RestoreConfig(c, original) ==
    [c EXCEPT !.STRATEGY_CONFIG = original.STRATEGY_CONFIG,
              !.STOP_LOSS_PERCENT = original.STOP_LOSS_PERCENT,
              !.TAKE_PROFIT_PERCENT = original.TAKE_PROFIT_PERCENT,
              !.MAX_POSITION_SIZE = original.MAX_POSITION_SIZE]

\* a call before its first step
NewCall(config) ==
    [ pc |-> "start", config |-> config, original |-> <<>>,
      run |-> Run2(Run(NewPortfolio(INITIAL_CASH), <<>>, <<>>, FALSE),
                   <<>>, <<>>, <<>>, <<>>),
      dateIdx |-> 0, symIdx |-> 0, summary |-> NoSummary, metrics |-> <<>> ]

InitOptimizer ==
    /\ portfolio = NewPortfolio(INITIAL_CASH)
    /\ raised = FALSE
    /\ fault = NoFault
    /\ metrics = NoMetrics
    /\ last = NoCall
    /\ nops = 0
    /\ hist \in OptimizerHistories
    /\ range = FullRange
    /\ historical_data = <<>>
    /\ all_dates = <<>>
    /\ pc = "optimizer"
    /\ dateIdx = 0
    /\ prices = <<>>
    /\ alerts = <<>>
    /\ symIdx = 0
    /\ trades = <<>>
    /\ results = <<>>
    /\ summary = NoSummary
    /\ hist2 = <<>>
    /\ run2 = <<>>
    /\ cfg = DefaultConfig
    /\ tc = [i \in Threads |-> NewCall(TestConfigs[i])]
    /\ sig = NoSignalCall

tvars == <<portfolio, raised, last, nops, hist, range, historical_data, all_dates, pc,
           dateIdx, prices, alerts, symIdx, trades, results, summary, hist2, run2, sig, fault, metrics>>

\* Backtest(...) is created and the original values are saved
TCSave(i) ==
    /\ tc[i].pc = "start"
    /\ tc' = [tc EXCEPT ![i].original = SavedConfig(cfg), ![i].pc = "update"]
    /\ UNCHANGED <<cfg, tvars>>

\* the globals are overwritten with the test configuration
TCUpdate(i) ==
    /\ tc[i].pc = "update"
    /\ cfg' = ApplyConfig(cfg, tc[i].config)
    /\ tc' = [tc EXCEPT ![i].pc = "fetch"]
    /\ UNCHANGED tvars

\* backtest.run: fetch, filter, collect the dates
TCRunStart(i) ==
    /\ tc[i].pc = "fetch"
    /\ \E hd \in {FilterRange(hist, range)} :
          IF DOMAIN hist = {} \/ AllDates(hd) = <<>>
          THEN tc' = [tc EXCEPT ![i].summary = EmptySummary, ![i].pc = "restore"]
          ELSE tc' = [tc EXCEPT ![i].run = Run2(@, hd, AllDates(hd), <<>>, <<>>),
                                ![i].dateIdx = 1, ![i].pc = "date"]
    /\ UNCHANGED <<cfg, tvars>>

TCBeginDate(i) ==
    /\ tc[i].pc = "date"
    /\ \E b \in {BeginDateOp(tc[i].run, tc[i].run.historical_data,
                             tc[i].run.all_dates[tc[i].dateIdx])} :
          tc' = [tc EXCEPT
                   ![i].run = [b.run EXCEPT !.prices = b.px, !.alerts = b.alerts],
                   ![i].symIdx = 1,
                   ![i].pc = IF b.run.raised THEN "restore"
                             ELSE IF b.alerts # <<>> THEN "alerts" ELSE "signals"]
    /\ UNCHANGED <<cfg, tvars>>

TCStopExit(i) ==
    /\ tc[i].pc = "alerts"
    /\ \E r \in {StopExitOp(tc[i].run, tc[i].run.prices,
                            tc[i].run.all_dates[tc[i].dateIdx],
                            Head(tc[i].run.alerts))} :
          tc' = [tc EXCEPT
                   ![i].run = [r EXCEPT !.alerts = Tail(r.alerts)],
                   ![i].pc = IF Tail(r.alerts) # <<>> THEN "alerts" ELSE "signals"]
    /\ UNCHANGED <<cfg, tvars>>

\* the signal and the size are computed from the globals as they are now
TCSignalStep(i) ==
    /\ tc[i].pc = "signals"
    /\ \E r \in {IF SignalRaises(tc[i].run.historical_data, tc[i].run.prices,
                                 tc[i].run.all_dates[tc[i].dateIdx], Symbols[tc[i].symIdx])
                 THEN [tc[i].run EXCEPT !.raised = TRUE]
                 ELSE ProcessSymbol(tc[i].run, tc[i].run.historical_data,
                                    tc[i].run.prices, tc[i].run.all_dates[tc[i].dateIdx],
                                    Symbols[tc[i].symIdx])} :
          tc' = [tc EXCEPT
                   ![i].run = r,
                   ![i].symIdx = @ + 1,
                   ![i].pc = IF r.raised THEN "restore"
                             ELSE IF tc[i].symIdx = Len(Symbols) THEN "snapshot"
                             ELSE "signals"]
    /\ UNCHANGED <<cfg, tvars>>

TCSnapshot(i) ==
    /\ tc[i].pc = "snapshot"
    /\ \E r \in {SnapshotOp(tc[i].run, tc[i].run.prices,
                            tc[i].run.all_dates[tc[i].dateIdx])} :
          tc' = [tc EXCEPT
                   ![i].run = r,
                   ![i].dateIdx = @ + 1,
                   ![i].pc = IF r.raised THEN "restore"
                             ELSE IF tc[i].dateIdx = Len(r.all_dates) THEN "final"
                             ELSE "date"]
    /\ UNCHANGED <<cfg, tvars>>

TCFinish(i) ==
    /\ tc[i].pc = "final"
    /\ \E t \in {get_total_value(tc[i].run.portfolio, tc[i].run.prices)} :
          tc' = [tc EXCEPT
                   ![i].run = [@ EXCEPT !.portfolio = t.pf, !.raised = t.raised],
                   ![i].summary = IF t.raised THEN NoSummary
                                  ELSE ResultsSummary(t.value, Len(tc[i].run.trades),
                                                      tc[i].run.historical_data),
                   ![i].pc = "restore"]
    /\ UNCHANGED <<cfg, tvars>>

\* finally: the saved values are put back, whether or not the run raised
TCRestore(i) ==
    /\ tc[i].pc = "restore"
    /\ cfg' = RestoreConfig(cfg, tc[i].original)
    /\ tc' = [tc EXCEPT ![i].pc = "evaluate"]
    /\ UNCHANGED tvars

\* evaluate_performance(results), or of {} when the run raised
TCEvaluate(i) ==
    /\ tc[i].pc = "evaluate"
    /\ tc' = [tc EXCEPT
                ![i].metrics = evaluate_performance(tc[i].summary, tc[i].run.trades,
                                                    tc[i].run.results),
                ![i].pc = "done"]
    /\ UNCHANGED <<cfg, tvars>>

NextOptimizer ==
    \E i \in Threads :
        \/ TCSave(i)
        \/ TCUpdate(i)
        \/ TCRunStart(i)
        \/ TCBeginDate(i)
        \/ TCStopExit(i)
        \/ TCSignalStep(i)
        \/ TCSnapshot(i)
        \/ TCFinish(i)
        \/ TCRestore(i)
        \/ TCEvaluate(i)

SpecOptimizer == InitOptimizer /\ [][NextOptimizer]_vars

(***************************************************************************)
(* StrategyOptimizer.optimize: the configurations are tested one after the  *)
(* other, each call returning before the next one starts.                   *)
(***************************************************************************)
\* the risk percentages the variations of a configuration are given
StopLosses == {Rat(3, 100), Rat(1, 2)}
TakeProfits == {Rat(7, 100), Rat(1, 10)}
\* the lists of configurations: a base configuration followed by a variation
\* of its stop loss and take profit, or two unrelated configurations
ConfigLists ==
    { << TestConfigs[k],
         [TestConfigs[k] EXCEPT !.stop_loss_percent = sl, !.take_profit_percent = tp] >> :
        k \in 1..Len(TestConfigs), sl \in StopLosses, tp \in TakeProfits }
    \cup {TestConfigs}

InitOptimize ==
    /\ portfolio = NewPortfolio(INITIAL_CASH)
    /\ raised = FALSE
    /\ fault \in Faults
    /\ metrics = NoMetrics
    /\ last = NoCall
    /\ nops = 0
    /\ hist \in OptimizerHistories
    /\ range = FullRange
    /\ historical_data = <<>>
    /\ all_dates = <<>>
    /\ pc = "optimize"
    /\ dateIdx = 0
    /\ prices = <<>>
    /\ alerts = <<>>
    /\ symIdx = 0
    /\ trades = <<>>
    /\ results = <<>>
    /\ summary = NoSummary
    /\ hist2 = <<>>
    /\ run2 = <<>>
    /\ cfg = DefaultConfig
    /\ tc \in {[i \in Threads |-> NewCall(configs[i])] : configs \in ConfigLists}
    /\ sig = NoSignalCall

\* for i, config in enumerate(configs, 1): the next call starts when the
\* calls before it have returned
OptimizeCall(i) ==
    /\ \A j \in Threads : j < i => tc[j].pc = "done"
    /\ TCSave(i)

NextOptimize ==
    \E i \in Threads :
        \/ OptimizeCall(i)
        \/ TCUpdate(i)
        \/ TCRunStart(i)
        \/ TCBeginDate(i)
        \/ TCStopExit(i)
        \/ TCSignalStep(i)
        \/ TCSnapshot(i)
        \/ TCFinish(i)
        \/ TCRestore(i)
        \/ TCEvaluate(i)

SpecOptimize == InitOptimize /\ [][NextOptimize]_vars

\* call i is not between saving the original values and putting them back
Outside(i) == tc[i].pc \in {"start", "evaluate", "done"}

\* C25: when a test_configuration call has returned, whether its backtest ran
\* to the end or raised, STRATEGY_CONFIG, MAX_POSITION_SIZE, STOP_LOSS_PERCENT
\* and TAKE_PROFIT_PERCENT have the values they had before the call, so the
\* next configuration starts from the same values.
C25_ConfigRestored ==
    (\A i \in Threads : Outside(i)) => cfg = DefaultConfig

\* a call whose backtest raised has returned, after writing values that all
\* differ from the original ones
C25_Witness ==
    /\ tc[1].pc = "done"
    /\ tc[1].run.raised
    /\ tc[2].pc = "start"
    /\ ApplyConfig(DefaultConfig, tc[1].config).STRATEGY_CONFIG # DefaultConfig.STRATEGY_CONFIG
    /\ tc[1].config.max_position_size # DefaultConfig.MAX_POSITION_SIZE
    /\ tc[1].config.stop_loss_percent # DefaultConfig.STOP_LOSS_PERCENT
    /\ tc[1].config.take_profit_percent # DefaultConfig.TAKE_PROFIT_PERCENT
    /\ cfg = DefaultConfig

\* the configurations of the two calls differ, and only in stop_loss_percent
\* and take_profit_percent
RiskPercentsOnly ==
    /\ tc[1].config # tc[2].config
    /\ [tc[1].config EXCEPT !.stop_loss_percent = tc[2].config.stop_loss_percent,
                            !.take_profit_percent = tc[2].config.take_profit_percent]
         = tc[2].config

MaxTrades == 4
\* the quantity of a SELL record is not read by evaluate_performance
EvalTrades ==
    { TradeRecord(1, s, "BUY", q, p, "Signal") :
        s \in SymbolSet, q \in 1..MaxQty, p \in PriceSet }
    \cup { TradeRecord(1, s, "SELL", 1, p, "Signal") : s \in SymbolSet, p \in PriceSet }
TradeLists == UNION { [1..n -> EvalTrades] : n \in 0..MaxTrades }
DailySnapshot(date, total_value) ==
    [ date |-> date, cash |-> INITIAL_CASH, total_value |-> R(total_value),
      pnl |-> R(total_value - INITIAL_CASH),
      pnl_percent |-> PnlPercent(NewPortfolio(INITIAL_CASH), R(total_value)) ]
DailyLists ==
    { <<>>,
      <<DailySnapshot(1, INITIAL_CASH), DailySnapshot(2, INITIAL_CASH - 4)>> }
\* the dicts Backtest.run returns: {} or the summary of a run
EvalResults ==
    {EmptySummary} \cup
    { ResultsSummary(R(INITIAL_CASH + 4), n, <<>>) : n \in 0..MaxTrades }

InitEvaluate ==
    /\ portfolio = NewPortfolio(INITIAL_CASH)
    /\ raised = FALSE
    /\ last = NoCall
    /\ nops = 0
    /\ hist = <<>>
    /\ range = [start |-> 1, end |-> 0]
    /\ historical_data = <<>>
    /\ all_dates = <<>>
    /\ pc = "evaluate"
    /\ dateIdx = 0
    /\ prices = <<>>
    /\ alerts = <<>>
    /\ symIdx = 0
    /\ trades \in TradeLists
    /\ results \in DailyLists
    /\ summary \in EvalResults
    /\ IF summary.empty THEN trades = <<>> /\ results = <<>>
       ELSE summary.num_trades = Len(trades)
    /\ hist2 = <<>>
    /\ run2 = <<>>
    /\ IdleOptimizer
    /\ fault = NoFault 
    /\ metrics = NoMetrics

\* metrics = evaluate_performance(results)
Evaluate ==
    /\ pc = "evaluate"
    /\ ~metrics.returned
    /\ \E m \in {evaluate_performance(summary, trades, results)} :
          metrics' = [returned |-> TRUE, value |-> m]
    /\ UNCHANGED <<pvars, bvars, cfg, tc, sig, fault>>

NextEvaluate == Evaluate

SpecEvaluate == InitEvaluate /\ [][NextEvaluate]_vars

\* the call evaluated a run that returned results with at least one trade
TradedCall == metrics.returned /\ ~summary.empty /\ Len(trades) > 0
\* the indices at which a BUY is followed by a SELL, whatever the symbols
BuyThenSell == {i \in 1..(Len(trades) - 1) :
                   trades[i].action = "BUY" /\ trades[i + 1].action = "SELL"}
PositionalWins == {i \in BuyThenSell : trades[i + 1].price > trades[i].price}

\* C23: evaluate_performance counts a winning trade exactly for each index i
\* where trades[i] is a BUY, trades[i+1] is a SELL and the SELL price is above
\* the BUY price, whatever the two symbols are, and win_rate is that count
\* divided by the number of trade records, times 100.
C23_PositionalWins ==
    TradedCall =>
        metrics.value.win_rate
            = RMul(Rat(Cardinality(PositionalWins), Len(trades)), R(100))

\* a BUY of one symbol followed by a dearer SELL of the other is the one win
\* among two records
C23_Witness ==
    /\ TradedCall
    /\ Len(trades) = 2
    /\ 1 \in PositionalWins
    /\ trades[1].symbol # trades[2].symbol
    /\ metrics.value.win_rate = R(50)

\* (SELL price - BUY price) * BUY quantity of the round trip at index i
RoundTripProfit(i) == (trades[i + 1].price - trades[i].price) * trades[i].quantity
GrossProfit ==
    SumFrom([i \in 1..(Len(trades) - 1) |->
                IF i \in BuyThenSell /\ RoundTripProfit(i) > 0
                THEN RoundTripProfit(i) ELSE 0], 1, Len(trades) - 1)
GrossLoss ==
    SumFrom([i \in 1..(Len(trades) - 1) |->
                IF i \in BuyThenSell /\ RoundTripProfit(i) <= 0
                THEN -RoundTripProfit(i) ELSE 0], 1, Len(trades) - 1)

\* C24: for a non-empty trade list, profit_factor is gross profit / gross loss
\* when the gross loss is positive, the gross profit when the gross loss is 0
\* and the gross profit positive, and 0 when both are 0; it is always a number
\* (no division by a zero gross loss).
C24_ProfitFactor ==
    TradedCall =>
        /\ ~IsNone(metrics.value.profit_factor)
        /\ GrossLoss > 0
              => metrics.value.profit_factor = Rat(GrossProfit, GrossLoss)
        /\ GrossLoss = 0 /\ GrossProfit > 0
              => metrics.value.profit_factor = R(GrossProfit)
        /\ GrossLoss = 0 /\ GrossProfit = 0
              => metrics.value.profit_factor = R(0)

\* a winning and a losing round trip in one list: the factor is their quotient
C24_Witness ==
    /\ TradedCall
    /\ GrossProfit = 4
    /\ GrossLoss = 8
    /\ metrics.value.profit_factor = Rat(1, 2)

(***************************************************************************)
(* generate_signal on its own: one call on a window of up to MaxBars bars, *)
(* with indicator windows short enough for the indicators to be defined on *)
(* such a window, in either mode, the sentiment overlay off or on.         *)
(***************************************************************************)
MaxBars == 5
SignalPrices == {8, 10, 12}
SignalWindows ==
    UNION { {[i \in 1..n |-> Bar(i, f[i])] : f \in [1..n -> SignalPrices]} : n \in 0..MaxBars }
StrategyTypes == {"SMA_CROSSOVER", "EMA_CROSSOVER", "RSI", "BOLLINGER", "MACD"}

\* STRATEGY_CONFIG with windows of 2 to 4 bars, in either mode
ShortWindows(trend) ==
    [DefaultConfig.STRATEGY_CONFIG EXCEPT
        !.sma_short = 2, !.sma_long = 3, !.ema_short = 2, !.ema_long = 4,
        !.rsi_period = 2, !.bollinger_period = 3,
        !.trend_following = trend, !.crossover_only = ~trend]
SignalConfigs ==
    { [DefaultConfig EXCEPT !.STRATEGY_CONFIG = sc, !.USE_SENTIMENT_ANALYSIS = u] :
        sc \in {ShortWindows(FALSE), ShortWindows(TRUE)},
        u \in BOOLEAN }

\* a call that is about to be made: its window, the strategy type asked for
\* and what fetch_news_sentiment is going to return
SignalCall(data, st, sentiment) ==
    [ called |-> FALSE, data |-> data, strategy_type |-> st, sentiment |-> sentiment,
      base |-> "", signal |-> "" ]

InitSignal ==
    /\ portfolio = NewPortfolio(INITIAL_CASH)
    /\ raised = FALSE
    /\ fault = NoFault
    /\ metrics = NoMetrics
    /\ last = NoCall
    /\ nops = 0
    /\ hist = <<>>
    /\ range = [start |-> 1, end |-> 0]
    /\ historical_data = <<>>
    /\ all_dates = <<>>
    /\ pc = "signal"
    /\ dateIdx = 0
    /\ prices = <<>>
    /\ alerts = <<>>
    /\ symIdx = 0
    /\ trades = <<>>
    /\ results = <<>>
    /\ summary = NoSummary
    /\ hist2 = <<>>
    /\ run2 = <<>>
    /\ cfg \in SignalConfigs
    /\ tc = <<>>
    /\ \E data \in SignalWindows, st \in StrategyTypes, sentiment \in SentimentSet :
         sig = SignalCall(data, st, IF cfg.USE_SENTIMENT_ANALYSIS THEN sentiment
                                    ELSE NoSentiment)

\* generate_signal(data, symbol, strategy_type): base is what the strategy
\* returned, signal what generate_signal returns after the sentiment overlay
GenerateSignal ==
    /\ pc = "signal"
    /\ ~sig.called
    /\ sig' = [sig EXCEPT
                 !.called = TRUE,
                 !.base = generate_signal_with(
                              [cfg EXCEPT !.USE_SENTIMENT_ANALYSIS = FALSE],
                              sig.data, sig.strategy_type, NoSentiment),
                 !.signal = generate_signal_with(cfg, sig.data, sig.strategy_type,
                                                 sig.sentiment)]
    /\ UNCHANGED <<pvars, bvars, cfg, tc, fault, metrics>>

NextSignal == GenerateSignal

SpecSignal == InitSignal /\ [][NextSignal]_vars

(***************************************************************************)
(* Claims about the Portfolio, checked under SpecPortfolio.                *)
(***************************************************************************)
IsLong(pf, s) == s \in Held(pf) /\ get_position(pf, s).quantity > 0
IsShort(pf, s) == s \in Held(pf) /\ get_position(pf, s).quantity < 0
UpdatingOps == {"update_prices", "get_total_value", "check_risk_limits"}

\* C1: on a fresh Portfolio, add_position(s, q, p) with q > 0 followed by
\* remove_position(s, -q, p) leaves cash at its initial value and s absent from
\* the position mapping.
C1_RoundTrip ==
    \A s \in ClientSymbols, q \in 1..MaxQty, p \in PriceSet :
        ( /\ nops = 2
          /\ Len(portfolio.trade_history) = 2
          /\ portfolio.trade_history[1] = TradeEntry(s, "BUY", q, p)
          /\ last = Call("remove_position", s, -q, p, NoneR, <<>>, NoneR) )
        => (portfolio.cash = portfolio.initial_cash /\ s \notin Held(portfolio))

\* C4: across update_prices calls (and the other calls that update prices) and
\* same-direction add_position calls, the stop of a long position never
\* decreases and the stop of a short position never increases; a price update
\* below the current price of a long position leaves its stop where it was.
C4_StopMonotone ==
    [][ \A s \in ClientSymbols :
          ( /\ s \in Held(portfolio) /\ s \in Held(portfolio')
            /\ \/ last'.op \in UpdatingOps
               \/ /\ last'.op = "add_position" /\ last'.symbol = s
                  /\ last'.quantity * get_position(portfolio, s).quantity > 0 )
          => LET old == get_position(portfolio, s)
                 new == get_position(portfolio', s)
             IN  /\ old.quantity > 0 => RLe(old.stop_loss_price, new.stop_loss_price)
                 /\ old.quantity < 0 => RLe(new.stop_loss_price, old.stop_loss_price)
                 /\ ( /\ old.quantity > 0 /\ last'.op \in UpdatingOps
                      /\ RLt(new.current_price, old.current_price) )
                    => new.stop_loss_price = old.stop_loss_price
      ]_vars

\* C4 witness: a long position whose high-water mark was just raised by a price
\* update while the stop recomputed from it lies below the stop that is kept.
C4_Witness ==
    /\ last.op = "update_prices"
    /\ \E s \in ClientSymbols :
          /\ IsLong(portfolio, s)
          /\ LET pos == get_position(portfolio, s)
             IN  /\ pos.highest_price = pos.current_price
                 /\ RLt(pos.entry_price, pos.highest_price)
                 /\ RLt(RSub(pos.highest_price, RMul(pos.atr, ATR_MULTIPLIER)),
                        pos.stop_loss_price)

\* C5: the position mapping holds no position whose quantity is 0.
C5_NoZeroPosition ==
    \A i \in 1..Len(portfolio.positions) : portfolio.positions[i].quantity # 0

\* C6: remove_position on a long position of n shares with a sell request
\* -m, m > n, deletes the position, adds n x price to cash and creates no
\* opposite-sign position.
C6_OversellClamped ==
    [][ \A s \in ClientSymbols, m \in 1..MaxQty, p \in PriceSet :
          ( /\ IsLong(portfolio, s)
            /\ m > get_position(portfolio, s).quantity
            /\ last' = Call("remove_position", s, -m, p, NoneR, <<>>, NoneR)
            /\ nops' = nops + 1 )
          => /\ s \notin Held(portfolio')
             /\ portfolio'.cash = portfolio.cash + get_position(portfolio, s).quantity * p
      ]_vars

(***************************************************************************)
(* Claims about Backtest.run, checked under Spec.                          *)
(***************************************************************************)
CurrentDate == all_dates[dateIdx]
LastTrade(tr) == tr[Len(tr)]
AppendedOne == Len(trades') = Len(trades) + 1

\* C2: the stop handling of a triggered symbol is a full close: when it has
\* finished the symbol has no position, and exactly one trade record for the
\* entire quantity at the date's price has been appended.
C2_StopExitCloses ==
    [][ (pc = "alerts" /\ Head(alerts) \in Held(portfolio))
        => LET s == Head(alerts)
               qty == get_position(portfolio, s).quantity
           IN  /\ s \notin Held(portfolio')
               /\ trades' = Append(trades,
                      TradeRecord(CurrentDate, s, IF qty > 0 THEN "SELL" ELSE "BUY",
                                  Abs(qty), prices[s], "STOP_LOSS"))
      ]_vars

\* The signal the loop over the symbols computes for the symbol it is at.
SignalNow ==
    IF pc = "signals" /\ Symbols[symIdx] \in DOMAIN prices
       /\ Len(data_slice(historical_data[Symbols[symIdx]], CurrentDate)) >= MIN_BARS
    THEN generate_signal(data_slice(historical_data[Symbols[symIdx]], CurrentDate),
                         "SMA_CROSSOVER")
    ELSE "NONE"

\* C3: a SELL signal on a long position of n shares closes it: after the step
\* the symbol is absent, cash has grown by n x price, and one SELL trade of
\* quantity n is recorded.
C3_SellSignalCloses ==
    [][ (SignalNow = "SELL" /\ IsLong(portfolio, Symbols[symIdx]))
        => LET s == Symbols[symIdx]
               n == get_position(portfolio, s).quantity
           IN  /\ s \notin Held(portfolio')
               /\ portfolio'.cash = portfolio.cash + n * prices[s]
               /\ trades' = Append(trades,
                      TradeRecord(CurrentDate, s, "SELL", n, prices[s], "Signal"))
      ]_vars

RECURSIVE HoldingsValue(_, _)
HoldingsValue(pf, i) ==
    IF i > Len(pf.positions) THEN R(0)
    ELSE RAdd(RMul(R(pf.positions[i].quantity), pf.positions[i].current_price),
              HoldingsValue(pf, i + 1))

\* C7: the total value is cash plus the sum over the held positions of
\* quantity x current_price, whenever it is asked for during a run and in the
\* snapshot a date has just recorded.
C7_TotalValueIdentity ==
    /\ ~raised
       => LET t == get_total_value(portfolio, prices)
          IN  ~t.raised => t.value = RAdd(R(t.pf.cash), HoldingsValue(t.pf, 1))
    /\ (pc \in {"date", "final"} /\ results # <<>>)
       => /\ results[Len(results)].cash = portfolio.cash
          /\ results[Len(results)].total_value
               = RAdd(R(portfolio.cash), HoldingsValue(portfolio, 1))

\* a snapshot of two positions, one of them away from its entry price
C7_Witness ==
    /\ pc \in {"date", "final"}
    /\ results # <<>>
    /\ Len(portfolio.positions) = 2
    /\ \E i \in 1..2 :
          portfolio.positions[i].current_price # portfolio.positions[i].entry_price
    /\ results[Len(results)].total_value # R(portfolio.cash)

\* C8: every BUY of the signal loop respects the three caps computed before
\* the trade: 20% of the total value, max_position_size, and the cash.
C8_BuyRespectsCaps ==
    [][ (pc = "signals" /\ AppendedOne /\ LastTrade(trades').action = "BUY")
        => LET t == LastTrade(trades')
               portfolio_value == get_total_value(portfolio, prices).value
           IN  /\ RLe(R(t.quantity * t.price), RMul(portfolio_value, Rat(20, 100)))
               /\ t.quantity <= MAX_POSITION_SIZE
               /\ t.quantity * t.price <= portfolio.cash
      ]_vars

\* C10: one snapshot per date, in the order of the date list, recorded after
\* the trades of its date: while the k-th date is being processed there are
\* k - 1 snapshots and no trade is dated later than it, between two dates
\* every trade is of a date that has its snapshot, and when the loop has
\* ended there is a snapshot for every date.
C10_OneSnapshotPerDate ==
    /\ pc \in {"date", "alerts", "signals", "snapshot"} => Len(results) = dateIdx - 1
    /\ pc = "final" => Len(results) = Len(all_dates)
    /\ (pc = "done" /\ all_dates # <<>>) => Len(results) = Len(all_dates)
    /\ Len(results) <= Len(all_dates)
    /\ \A k \in 1..Len(results) : results[k].date = all_dates[k]
    /\ \A k \in 1..(Len(results) - 1) : results[k].date < results[k + 1].date
    /\ \A i \in 1..Len(trades) :
          \E k \in 1..Len(all_dates) :
             /\ trades[i].date = all_dates[k]
             /\ k <= (IF pc \in {"alerts", "signals", "snapshot", "raised"} THEN Len(results) + 1
                      ELSE Len(results))

\* a finished run with a snapshot for a date on which nothing was traded and
\* for a date on which something was
C10_Witness ==
    /\ pc = "done"
    /\ Len(results) = NumDates
    /\ \E i \in 1..Len(trades) : trades[i].date = MIN_BARS + 1
    /\ \A i \in 1..Len(trades) : trades[i].date # 1

(***************************************************************************)
(* The claim about two runs, checked under SpecPair.                       *)
(***************************************************************************)
\* the bars of both histories are the same up to the last date of the second
AgreeUpTo(h, g, d) ==
    /\ DOMAIN h = DOMAIN g
    /\ \A s \in DOMAIN h :
          SelectSeq(h[s], LAMBDA b : b.date <= d) = SelectSeq(g[s], LAMBDA b : b.date <= d)

\* C9: no look-ahead: two runs whose bars agree up to a date d have the same
\* trade records and the same daily snapshots for every date up to d.
C9_NoLookAhead ==
    (pc = "pair_date" /\ AgreeUpTo(hist, hist2, dateIdx - 1))
    => /\ trades = run2.trades
       /\ results = run2.results

\* both runs have traded, and the first has bars of another price to come
C9_Witness ==
    /\ pc = "pair_date"
    /\ AgreeUpTo(hist, hist2, dateIdx - 1)
    /\ trades # <<>>
    /\ \E t \in 1..Len(trades) : trades[t].action = "SELL"
    /\ \E s \in DOMAIN hist :
          /\ Len(hist[s]) > Len(hist2[s])
          /\ hist[s][Len(hist2[s]) + 1].close # hist[s][Len(hist2[s])].close

\* C19: remove_position for a symbol that has no open position is a no-op:
\* cash, the positions and the trade history are unchanged and nothing is
\* raised.
C19_RemoveNotHeldIsNoOp ==
    [][ ( /\ nops' = nops + 1
          /\ last'.op = "remove_position"
          /\ last'.symbol \notin Held(portfolio) )
        => ( /\ portfolio'.cash = portfolio.cash
             /\ portfolio'.positions = portfolio.positions
             /\ portfolio'.trade_history = portfolio.trade_history
             /\ ~raised' ) ]_vars

\* C19 witness: the first call on a new portfolio was a remove_position of a
\* symbol it does not hold, and the portfolio is as it was created
C19_Witness ==
    /\ nops = 1 /\ last.op = "remove_position" /\ last.quantity # 0
    /\ portfolio = NewPortfolio(portfolio.initial_cash)
    /\ ~raised

\* C22: add_position(s, q2, p2, atr2) with q2 > 0 on an existing long position
\* (q1 shares at entry price p1, ATR a1) yields quantity q1 + q2, entry price
\* (q1 x p1 + q2 x p2) / (q1 + q2) and ATR (a1 + atr2) / 2, reduces cash by
\* q2 x p2, and leaves the stop price and the high-water mark unchanged.
C22_IncreaseAverages ==
    [][ \A s \in ClientSymbols :
          ( /\ nops' = nops + 1
            /\ last'.op = "add_position" /\ last'.symbol = s
            /\ last'.quantity > 0 /\ ~IsNone(last'.atr)
            /\ IsLong(portfolio, s) )
          => /\ s \in Held(portfolio')
             /\ LET old == get_position(portfolio, s)
                    new == get_position(portfolio', s)
                    q2 == last'.quantity
                    p2 == last'.price
                IN  /\ new.quantity = old.quantity + q2
                    /\ new.entry_price =
                          RDiv(RAdd(RMul(R(old.quantity), old.entry_price), R(q2 * p2)),
                               R(old.quantity + q2))
                    /\ new.atr = RDiv(RAdd(old.atr, last'.atr), R(2))
                    /\ portfolio'.cash = portfolio.cash - q2 * p2
                    /\ new.stop_loss_price = old.stop_loss_price
                    /\ new.highest_price = old.highest_price
      ]_vars

\* C22 witness: a long position was just increased at a price other than the
\* one it was opened at, so that its entry price is neither of the two
C22_Witness ==
    /\ last.op = "add_position" /\ last.quantity > 0 /\ ~IsNone(last.atr)
    /\ \E s \in ClientSymbols :
          /\ last.symbol = s /\ IsLong(portfolio, s)
          /\ LET pos == get_position(portfolio, s)
             IN  /\ pos.quantity > last.quantity
                 /\ pos.entry_price # R(last.price)
                 /\ ~IsNone(pos.highest_price)

\* C12: no sequence of Portfolio operations raises: after every add_position,
\* remove_position, update_prices, get_total_value and check_risk_limits the
\* call has returned normally, also after an add_position of the opposite
\* sign followed by a price update.
C12_NoOperationRaises ==
    last.op \in {"add_position", "remove_position", "update_prices",
                 "get_total_value", "check_risk_limits"}
    => ~raised

\* C13: a failure while one symbol is processed on one date does not halt the
\* date loop: when the run is over, a snapshot has been recorded for every
\* date of the run.
C13_FailureIsolated ==
    (fault # NoFault /\ pc \in {"done", "raised"} /\ all_dates # <<>>)
    => /\ Len(results) = Len(all_dates)
       /\ \A k \in 1..Len(results) : results[k].date = all_dates[k]

\* no bar of any symbol is dated inside the requested range
NoBarInRange ==
    \A s \in DOMAIN hist : \A i \in 1..Len(hist[s]) :
       hist[s][i].date < range.start \/ hist[s][i].date > range.end

\* C14: when the provider returns no data for any symbol, or no bar falls in
\* the requested range, run() returns the empty result without raising, with
\* no trade and no snapshot recorded and the portfolio at its initial cash
\* with no position.
C14_EmptyRun ==
    (pc # "init" /\ (DOMAIN hist = {} \/ NoBarInRange))
    => /\ pc = "done" /\ summary = EmptySummary /\ ~raised
       /\ trades = <<>> /\ results = <<>>
       /\ portfolio = NewPortfolio(portfolio.initial_cash)

\* C14 witness: run() has returned the empty result for bars that all lie
\* outside the requested range
C14_Witness ==
    /\ pc = "done" /\ summary = EmptySummary
    /\ DOMAIN hist = SymbolSet /\ NoBarInRange

(***************************************************************************)
(* The flat-then-rising scenario, checked under SpecScenario.              *)
(***************************************************************************)
ScenarioClose(i) == hist[Symbols[1]][i].close

\* the bars are flat up to bar k and strictly rising after it
RisesAfter(k) ==
    /\ \A i \in 1..k : ScenarioClose(i) = ScenarioClose(1)
    /\ \A i \in (k + 1)..ScenarioBars : ScenarioClose(i) > ScenarioClose(i - 1)

\* flat, then strictly rising from a bar at which both averages of the previous
\* bar are defined: that bar is where the 5-bar SMA crosses above the 20-bar SMA
FlatThenRising == \E k \in SMA_LONG..(ScenarioBars - 1) : RisesAfter(k)
CrossingBar == 1 + CHOOSE k \in SMA_LONG..(ScenarioBars - 1) : RisesAfter(k)

\* the minimum of the 1%-risk, 20%-cap, cash and max-position limits for a buy
\* at the crossing bar with the whole initial cash at hand
MinimumRuleSize ==
    LET price == ScenarioClose(CrossingBar)
        atr == calculate_atr(data_slice(hist[Symbols[1]], CrossingBar), ATR_PERIOD)
        stop_distance == RMul(atr, ATR_MULTIPLIER)
        by_risk == Trunc(RDiv(R(INITIAL_CASH \div 100), stop_distance))
        by_cap == (INITIAL_CASH \div 5) \div price
        by_cash == INITIAL_CASH \div price
    IN  Min2(Min2(by_risk, by_cap), Min2(by_cash, MAX_POSITION_SIZE))

BuyTrades == {i \in 1..Len(trades) : trades[i].action = "BUY"}

\* C18: on 30 bars that are flat and then strictly rising, with initial cash
\* 10000, SMA(5,20) in crossover-only mode and max_position_size 10, the run
\* records exactly one BUY, at the crossing bar, sized by the minimum of the
\* four limits, and ends with a total value of at least the initial cash.
C18_OneBuyAtTheCross ==
    (pc = "done" /\ FlatThenRising /\ cfg = DefaultConfig)
    => /\ Cardinality(BuyTrades) = 1
       /\ \A i \in BuyTrades : /\ trades[i].date = CrossingBar
                               /\ trades[i].quantity = MinimumRuleSize
       /\ RLe(R(INITIAL_CASH), summary.final_value)

(***************************************************************************)
(* Claims about the optimizer, checked under SpecOptimizer.                *)
(***************************************************************************)
RECURSIVE StopExitsFrom(_, _, _, _)
StopExitsFrom(run, px, date, al) ==
    IF al = <<>> THEN run
    ELSE StopExitsFrom(StopExitOp(run, px, date, Head(al)), px, date, Tail(al))

RECURSIVE SignalsFrom(_, _, _, _, _)
SignalsFrom(c, run, px, date, k) ==
    IF k > Len(Symbols) \/ run.raised THEN run
    ELSE SignalsFrom(c, ProcessSymbolWith(c, run, run.historical_data, px, date,
                                          Symbols[k]),
                     px, date, k + 1)

\* one whole iteration of the date loop, with nothing else running
DateAlone(c, run, date) ==
    LET b == BeginDateOp(run, run.historical_data, date)
    IN  IF b.run.raised THEN b.run
        ELSE LET s == SignalsFrom(c, StopExitsFrom(b.run, b.px, date, b.alerts),
                                  b.px, date, 1)
             IN  IF s.raised THEN s
                 ELSE [SnapshotOp(s, b.px, date) EXCEPT !.prices = b.px]

RECURSIVE DatesAlone(_, _, _)
DatesAlone(c, run, k) ==
    IF k > Len(run.all_dates) \/ run.raised THEN run
    ELSE DatesAlone(c, DateAlone(c, run, run.all_dates[k]), k + 1)

\* what test_configuration(config) yields when it is the only call: the
\* trades, the daily results and the summary of its run
RunAlone(config, h, rng) ==
    LET c == ApplyConfig(DefaultConfig, config)
        hd == FilterRange(h, rng)
        fresh == Run(NewPortfolio(INITIAL_CASH), <<>>, <<>>, FALSE)
    IN  IF DOMAIN h = {} \/ AllDates(hd) = <<>>
        THEN [trades |-> <<>>, results |-> <<>>, summary |-> EmptySummary]
        ELSE LET r == DatesAlone(c, Run2(fresh, hd, AllDates(hd), <<>>, <<>>), 1)
                 t == get_total_value(r.portfolio, r.prices)
             IN  [ trades |-> r.trades, results |-> r.results,
                   summary |-> IF r.raised \/ t.raised THEN NoSummary
                               ELSE ResultsSummary(t.value, Len(r.trades), hd) ]

\* C11: simulations share no mutable state: a test_configuration call whose
\* steps interleave with those of another call yields the backtest result it
\* yields when it runs alone.
C11_IndependentRuns ==
    \A i \in Threads :
       tc[i].pc \in {"evaluate", "done"}
       => LET alone == RunAlone(tc[i].config, hist, range)
          IN  /\ tc[i].run.trades = alone.trades
              /\ tc[i].run.results = alone.results
              /\ tc[i].summary = alone.summary

\* a call has returned the metrics of a run that returned a result without
\* any trade
ZeroTradeCall(i) ==
    /\ tc[i].pc = "done"
    /\ tc[i].summary.returned /\ ~tc[i].summary.empty
    /\ tc[i].run.trades = <<>>

\* C15: evaluate_performance on a result whose trade list is empty returns
\* win_rate = 0 and profit_factor = 0, with sharpe_ratio = 0, max_drawdown = 0,
\* num_trades = 0 and score = total_return, all of them numbers (nothing was
\* divided by zero).
C15_ZeroTradeMetrics ==
    \A i \in Threads :
       ZeroTradeCall(i)
       => LET m == tc[i].metrics
          IN  /\ {"win_rate", "profit_factor", "sharpe_ratio", "max_drawdown",
                  "num_trades", "score", "total_return"} \subseteq DOMAIN m
              /\ m.win_rate = R(0) /\ m.profit_factor = R(0)
              /\ m.sharpe_ratio = ZeroSharpe /\ m.max_drawdown = R(0)
              /\ m.num_trades = 0
              /\ m.total_return = tc[i].summary.total_return
              /\ ~IsNone(m.total_return)
              /\ m.score = Score(m.total_return, ZeroSharpe)

\* C15 witness: a call has evaluated a run of 23 dates that traded nothing
C15_Witness ==
    \E i \in Threads :
       /\ ZeroTradeCall(i)
       /\ Len(tc[i].run.results) = NumDates

MetricsFields ==
    {"total_return", "sharpe_ratio", "max_drawdown", "win_rate", "profit_factor",
     "num_trades", "score"}

\* C16: for every run result, the empty result of a failed run and a result
\* without trades included, evaluate_performance returns a record that holds
\* all seven fields total_return, sharpe_ratio, max_drawdown, win_rate,
\* profit_factor, num_trades and score.
C16_AllSevenFields ==
    \A i \in Threads :
       tc[i].pc = "done" => MetricsFields \subseteq DOMAIN tc[i].metrics

(***************************************************************************)
(* Claims about generate_signal, checked under SpecSignal.                 *)
(***************************************************************************)
\* the number of bars the strategy that serves a strategy type asks for
RequiredBars(sc, strategy_type) ==
    IF strategy_type = "EMA_CROSSOVER" THEN sc.ema_long
    ELSE IF strategy_type = "RSI" THEN sc.rsi_period
    ELSE IF strategy_type = "BOLLINGER" THEN sc.bollinger_period
    ELSE sc.sma_long

\* C17: generate_signal returns HOLD for every strategy type whenever the
\* window holds fewer bars than the strategy requires, whatever sentiment
\* score the overlay supplies.
C17_HoldOnShortWindow ==
    (sig.called /\ Len(sig.data) < RequiredBars(cfg.STRATEGY_CONFIG, sig.strategy_type))
    => sig.signal = "HOLD"

\* a call of one of the two crossover strategies in crossover-only mode
StrictCrossoverCall ==
    /\ sig.called
    /\ sig.strategy_type \in {"SMA_CROSSOVER", "EMA_CROSSOVER"}
    /\ cfg.STRATEGY_CONFIG.crossover_only \/ ~cfg.STRATEGY_CONFIG.trend_following

\* the short and the long average of the strategy called, at bar k of its window
ShortAt(k) ==
    IF sig.strategy_type = "EMA_CROSSOVER"
    THEN calculate_ema(sig.data, cfg.STRATEGY_CONFIG.ema_short, k)
    ELSE calculate_sma(sig.data, cfg.STRATEGY_CONFIG.sma_short, k)
LongAt(k) ==
    IF sig.strategy_type = "EMA_CROSSOVER"
    THEN calculate_ema(sig.data, cfg.STRATEGY_CONFIG.ema_long, k)
    ELSE calculate_sma(sig.data, cfg.STRATEGY_CONFIG.sma_long, k)

\* short > long at the decision bar, short <= long at the previous bar, RSI < 70
GoldenCross ==
    LET n == Len(sig.data)
    IN  /\ NLt(LongAt(n), ShortAt(n))
        /\ NLe(ShortAt(n - 1), LongAt(n - 1))
        /\ NLt(FilterRsi(cfg.STRATEGY_CONFIG, sig.data), R(70))

\* short < long at the decision bar, short >= long at the previous bar, RSI > 30
DeathCross ==
    LET n == Len(sig.data)
    IN  /\ NLt(ShortAt(n), LongAt(n))
        /\ NLe(LongAt(n - 1), ShortAt(n - 1))
        /\ NLt(R(30), FilterRsi(cfg.STRATEGY_CONFIG, sig.data))

\* BUY exactly on a golden cross, SELL exactly on a death cross, HOLD otherwise
SignalIsTheCross ==
    /\ sig.base = "BUY" <=> GoldenCross
    /\ sig.base = "SELL" <=> DeathCross
    /\ sig.base = "HOLD" <=> (~GoldenCross /\ ~DeathCross)

\* C20: in crossover-only mode, on a window of at least long_window bars, the
\* SMA and the EMA crossover strategy return BUY exactly when short > long at
\* the decision bar, short <= long at the previous bar and RSI < 70, SELL
\* exactly when short < long at the decision bar, short >= long at the
\* previous bar and RSI > 30, and HOLD in every other case.
C20_CrossoverOnly ==
    ( /\ StrictCrossoverCall
      /\ Len(sig.data) >= RequiredBars(cfg.STRATEGY_CONFIG, sig.strategy_type) )
    => SignalIsTheCross

\* C20 as stated, for windows of any length: BUY exactly on a golden cross,
\* SELL exactly on a death cross, HOLD otherwise.
C20_AsStated == StrictCrossoverCall => SignalIsTheCross

\* C20 witness: the EMA strategy answered BUY in crossover-only mode
C20_Witness ==
    /\ StrictCrossoverCall
    /\ sig.strategy_type = "EMA_CROSSOVER"
    /\ sig.base = "BUY"

(***************************************************************************)
(* Further claims about Backtest.run, checked under Spec.                  *)
(***************************************************************************)
\* C21: a symbol for which a stop-triggered exit was executed on a date is not
\* evaluated for a signal on that date: no further trade record is appended
\* for that symbol with the same date.
C21_NoTradeAfterStopExit ==
    \A i \in 1..Len(trades) : \A j \in (i + 1)..Len(trades) :
       ~ ( /\ trades[i].reason = "STOP_LOSS"
           /\ trades[j].symbol = trades[i].symbol
           /\ trades[j].date = trades[i].date )

\* the run returned its final statistics
RunReturned == pc = "done" /\ summary.returned /\ ~summary.empty
\* the requested symbols that have bars in the window
WithBars == {s \in SymbolSet : s \in DOMAIN historical_data /\ Len(historical_data[s]) > 0}
\* (last close - first close) / first close x 100 of a symbol with bars
SymbolReturn(s) ==
    RMul(Rat(historical_data[s][Len(historical_data[s])].close - historical_data[s][1].close,
             historical_data[s][1].close), R(100))
RECURSIVE SumOfReturns(_)
SumOfReturns(S) ==
    IF S = {} THEN R(0)
    ELSE LET s == CHOOSE x \in S : TRUE
         IN  RAdd(SymbolReturn(s), SumOfReturns(S \ {s}))

\* C26: buy_hold_return is the equal-weighted average, over the requested
\* symbols that have bars in the window, of (last close - first close) /
\* first close x 100, and vs_buy_hold is total_return minus it, also when a
\* requested symbol has no data.
C26_BuyHoldAverage ==
    RunReturned =>
        /\ summary.buy_hold_return
              = RDiv(SumOfReturns(WithBars), R(Cardinality(WithBars)))
        /\ summary.vs_buy_hold = RSub(summary.total_return, summary.buy_hold_return)

\* C28: total_return is measured against the initial cash of the run's own
\* portfolio: it is (final_value - initial_cash) / initial_cash x 100 for the
\* initial_cash given to Backtest, and equals the pnl_percent of the last
\* daily snapshot.
C28_ReturnOnOwnCash ==
    RunReturned =>
        /\ summary.total_return
              = RMul(RDiv(RSub(summary.final_value, R(portfolio.initial_cash)),
                          R(portfolio.initial_cash)), R(100))
        /\ summary.total_return = results[Len(results)].pnl_percent

\* the step executed a fill: it appended a trade record
Filled == Len(trades') = Len(trades) + 1

\* C27: every executed BUY, SELL or stop exit of Backtest.run is filled at the
\* mark price of its symbol, so that the total value of the portfolio at the
\* prices of the date is the same after the fill as before it.
C27_FillKeepsValue ==
    [][ Filled =>
          get_total_value(portfolio', prices).value
              = get_total_value(portfolio, prices).value ]_vars

\* C30: in every state of Backtest.run, with positive prices and a positive
\* initial cash, the cash of the portfolio is >= 0: a BUY is executed only
\* when cash covers quantity x price, and the exits only add cash.
C30_CashNonNegative == portfolio.cash >= 0

\* the run met a BUY signal at a close above its cash and executed no trade
C30_Witness ==
    /\ pc = "done"
    /\ trades = <<>>
    /\ portfolio.cash = 10
    /\ \E s \in DOMAIN historical_data : \E d \in 1..Len(all_dates) :
          LET sl == data_slice(historical_data[s], all_dates[d])
          IN  /\ Len(sl) >= MIN_BARS
              /\ sl[Len(sl)].date = all_dates[d]
              /\ sl[Len(sl)].close > portfolio.cash
              /\ generate_signal_with(cfg, sl, "SMA_CROSSOVER", NoSentiment) = "BUY"

============================================================================
